---- MODULE Spec2Model ----
(***************************************************************************)
(* Remote command execution layer of apcommand:                            *)
(*   NonLocalConnection / TelnetConnection  (the Channel),                 *)
(*   TelnetAdapter                           (the Session),                *)
(*   TelnetOutput                            (the Output Demultiplexer).   *)
(*                                                                         *)
(* Python strings are sequences of one-character strings, so that strip,   *)
(* rstrip, format and the pattern searches of telnetlib are computed on    *)
(* the characters.  Python's None is the tuple <<"None">>, whose single    *)
(* element is not a character, so it differs from every string.            *)
(***************************************************************************)
EXTENDS Integers, Sequences, FiniteSets, TLC

VARIABLES
    _path,            \* NonLocalConnection._path
    _library_path,    \* NonLocalConnection._library_path
    _command_prefix,  \* NonLocalConnection._command_prefix
    _prefix,          \* NonLocalConnection._prefix (the cached prefix)
    _client,          \* TelnetConnection._client: "None" or "TelnetAdapter"
    password,         \* TelnetAdapter.password
    adapter_client,   \* TelnetAdapter._client: "None" or "Telnet"
    telnet_timeout,   \* the timeout attribute exec_command sets on the Telnet object
    opened,           \* how many telnetlib.Telnet objects the Session has opened
    handshakes,       \* the login handshakes the Session has run, in order
    stream,           \* text the remote shell has sent that no read has taken yet
    outputs,          \* the TelnetOutput objects created so far, in creation order
    files,            \* the OutputFile objects _main has wrapped around them
    _lock,            \* NonLocalConnection._lock: 0 for None, else an RLock of `locks`
    locks,            \* the RLock objects created so far: owner (0: free) and count
    thread,           \* the threads sharing the Channel: position and local values
    builder,          \* the TelnetConnectionBuilder: its parameters and memoized fields
    connections,      \* the TelnetConnection objects constructed so far
    adapters,         \* how many TelnetAdapter objects have been constructed
    commands,         \* the Broadcom configuration commands, by the name bound to them
    mangle_prompt,    \* TelnetConnection.mangle_prompt
    events,           \* what the Channel has done so far, in order
    counter,          \* a SharedCounter: its count and step, and the calls made on it
    last              \* the last operation a caller performed, with what it returned

channelVars == <<_path, _library_path, _command_prefix, _prefix>>

sessionVars == <<_client, password, adapter_client, telnet_timeout, opened, handshakes>>

transportVars == <<stream>>

threadVars == <<_lock, locks, thread>>

builderVars == <<builder, connections, adapters>>

commandVars == <<commands>>

manglingVars == <<mangle_prompt, events>>

counterVars == <<counter>>

vars == <<_path, _library_path, _command_prefix, _prefix, _client, password,
          adapter_client, telnet_timeout, opened, handshakes, stream, outputs,
          files, _lock, locks, thread, builder, connections, adapters,
          commands, mangle_prompt, events, counter, last>>

None == <<"None">>

----------------------------------------------------------------------------
(* String constants of the source *)

EMPTY_STRING == <<>>

SPACE == <<" ">>

NEWLINE == <<"\n">>

PATH_HEAD == <<"P","A","T","H","=">>

PATH_TAIL == <<":","$","P","A","T","H",";">>

LIBRARY_HEAD == <<"e","x","p","o","r","t"," ","L","D","_","L","I","B","R","A","R","Y","_","P","A","T","H","=">>

LIBRARY_TAIL == <<":","$","L","D","_","L","I","B","R","A","R","Y","_","P","A","T","H",";">>

(* characters str.strip() removes (the vertical tab has no escape here and *)
(* no value assigned contains it)                                         *)
Whitespace == {" ", "\t", "\n", "\r", "\f"}

----------------------------------------------------------------------------
(* Values the callers assign *)

ape == <<"a","p","e">>

usr_lib == <<"/","u","s","r","/","l","i","b">>

adb_shell == <<"a","d","b"," ","s","h","e","l","l">>

padded_su == <<" ","s","u"," ">>

PathValues == {None, EMPTY_STRING, ape, usr_lib}

PrefixValues == {EMPTY_STRING, adb_shell, padded_su}

----------------------------------------------------------------------------
(* str methods *)

RECURSIVE LStrip(_, _)
LStrip(s, chars) ==
    IF s # <<>> /\ Head(s) \in chars THEN LStrip(Tail(s), chars) ELSE s

RECURSIVE RStrip(_, _)
RStrip(s, chars) ==
    IF s # <<>> /\ s[Len(s)] \in chars
    THEN RStrip(SubSeq(s, 1, Len(s) - 1), chars)
    ELSE s

Strip(s) == RStrip(LStrip(s, Whitespace), Whitespace)

----------------------------------------------------------------------------
(* NonLocalConnection: the prefix parts *)

(* "PATH={0}:$PATH;".format(path) *)
PathFormat(path) == PATH_HEAD \o path \o PATH_TAIL

(* "export LD_LIBRARY_PATH={0}:$LD_LIBRARY_PATH;".format(path) *)
LibraryPathFormat(path) == LIBRARY_HEAD \o path \o LIBRARY_TAIL

(* the value a lazily defaulted attribute holds after its getter ran *)
Defaulted(attribute) == IF attribute = None THEN EMPTY_STRING ELSE attribute

(* a path setter that forgets to empty the cache *)
SetPath_KeepsCache(path) ==
    /\ _path' = IF path # None THEN PathFormat(path) ELSE path
    /\ UNCHANGED <<_prefix, _library_path, _command_prefix>>

(* path setter *)
SetPath(path) ==
    /\ _prefix' = None
    /\ _path' = IF path # None THEN PathFormat(path) ELSE path
    /\ UNCHANGED <<_library_path, _command_prefix>>

(* a library_path setter that tests the truth of the value, not `is None` *)
SetLibraryPath_Truthy(path) ==
    /\ _prefix' = None
    /\ _library_path' = IF path # None /\ path # EMPTY_STRING
                        THEN LibraryPathFormat(path)
                        ELSE None
    /\ UNCHANGED <<_path, _command_prefix>>

(* library_path setter *)
SetLibraryPath(path) ==
    /\ _prefix' = None
    /\ _library_path' = IF path # None THEN LibraryPathFormat(path) ELSE path
    /\ UNCHANGED <<_path, _command_prefix>>

(* a command_prefix setter that forgets to empty the cache *)
SetCommandPrefix_KeepsCache(prefix) ==
    /\ IF Len(prefix) # 0
       THEN /\ _command_prefix' = Strip(prefix) \o SPACE
            /\ UNCHANGED _prefix
       ELSE UNCHANGED <<_prefix, _command_prefix>>
    /\ UNCHANGED <<_path, _library_path>>

(* command_prefix setter: an empty prefix leaves everything as it was *)
SetCommandPrefix(prefix) ==
    /\ IF Len(prefix) # 0
       THEN /\ _prefix' = None
            /\ _command_prefix' = Strip(prefix) \o SPACE
       ELSE UNCHANGED <<_prefix, _command_prefix>>
    /\ UNCHANGED <<_path, _library_path>>

(* the value the prefix property returns in the current state *)
PrefixValue ==
    IF _prefix = None
    THEN Defaulted(_path) \o Defaulted(_library_path) \o Defaulted(_command_prefix)
    ELSE _prefix

(* what reading the prefix property leaves in the attributes: the three    *)
(* getters run only when the cache is empty, and each replaces None by ''  *)
PrefixRead ==
    /\ _prefix' = PrefixValue
    /\ IF _prefix = None
       THEN /\ _path' = Defaulted(_path)
            /\ _library_path' = Defaulted(_library_path)
            /\ _command_prefix' = Defaulted(_command_prefix)
       ELSE UNCHANGED <<_path, _library_path, _command_prefix>>

----------------------------------------------------------------------------
(* Session constants *)

(* TelnetConnection(prompt="#") *)
prompt == <<"#">>

(* TelnetConnection(end_of_line='\r\n') *)
end_of_line == <<"\r","\n">>

(* TelnetAdapter(login_prompt="login:") *)
login_prompt == <<"l","o","g","i","n",":">>

(* the literal read_until waits for after the login name *)
password_prompt == <<"P","a","s","s","w","o","r","d",":"," ">>

(* the username the Channel hands to the Session as its login *)
login == <<"r","o","o","t">>

(* NonLocalConnection(timeout=5), handed to the TelnetAdapter *)
ConnectionTimeout == 5

(* a timeout argument of None; every real timeout is positive *)
NoTimeout == -1

(* EOF = '' *)
EOF == EMPTY_STRING

----------------------------------------------------------------------------
(* telnetlib.Telnet as the Session uses it *)

Take(s, k) == SubSeq(s, 1, k)

Drop(s, k) == SubSeq(s, k + 1, Len(s))

(* re.search of a literal: the start of the leftmost occurrence, 0 if none *)
Find(p, s) ==
    LET hits == {i \in 1..(Len(s) - Len(p) + 1) : SubSeq(s, i, i + Len(p) - 1) = p}
    IN  IF hits = {} THEN 0 ELSE CHOOSE i \in hits : \A j \in hits : i <= j

(* expect tries the patterns in list order on the whole buffer: the first  *)
(* pattern that occurs anywhere wins, 0 if none occurs                     *)
FirstMatch(list, s) ==
    LET found == {i \in 1..Len(list) : Find(list[i], s) > 0}
    IN  IF found = {} THEN 0 ELSE CHOOSE i \in found : \A j \in found : i <= j

(* expect returns (index, match, text up to the end of the match) and      *)
(* keeps what follows the match                                            *)
MatchOutcome(list, received, rest) ==
    LET i == FirstMatch(list, received)
        e == Find(list[i], received) + Len(list[i]) - 1
    IN  [index |-> i - 1, text |-> Take(received, e),
         stream |-> Drop(received, e) \o rest]

(* on a timeout expect returns (-1, None, read_very_lazy()): what was      *)
(* received is handed out and is gone from the buffer                      *)
TimeoutOutcome(received, rest) ==
    [index |-> -1, text |-> received, stream |-> rest]

(* Telnet.expect(list, timeout) with a finite timeout.  How much of the    *)
(* stream is in telnetlib's buffer when a search succeeds or the timeout   *)
(* elapses is the network's choice: any k characters.  A search that       *)
(* succeeds consumes up to the end of the match only, so what is left of   *)
(* the k characters is found again by the next read.                       *)
ExpectOutcomes(list, s) ==
    {IF FirstMatch(list, Take(s, k)) > 0
     THEN MatchOutcome(list, Take(s, k), Drop(s, k))
     ELSE TimeoutOutcome(Take(s, k), Drop(s, k)) : k \in 0..Len(s)}

(* Telnet.read_very_eager(): everything received so far, without blocking *)
ReadVeryEagerOutcomes(s) ==
    {[text |-> Take(s, k), stream |-> Drop(s, k)] : k \in 0..Len(s)}

----------------------------------------------------------------------------
(* TelnetAdapter (the Session) *)

(* what the remote side sends once it has the login name: it asks for the *)
(* password or, for an account without one, starts the shell               *)
LoginReplies == {password_prompt, prompt}

(* what the remote side sends once it has the password *)
PasswordReply == prompt

(* one run of the handshake: the result of the first expect, whether       *)
(* read_until found the password prompt, and the writes made               *)
Handshake(index, found, written) ==
    [index |-> index, found |-> found, written |-> written]

(* a handshake that sends the password before the login name *)
HandshakeOutcomes_PasswordFirst(pw, s) ==
    UNION {
      IF output.index = 1
      THEN UNION {
             IF pw # None
             THEN {[stream |-> o2.stream \o PasswordReply,
                    written |-> <<pw \o NEWLINE, login \o NEWLINE>>,
                    opened |-> 1,
                    handshakes |-> << Handshake(output.index, o2.index = 0,
                                                <<pw \o NEWLINE, login \o NEWLINE>>) >>] :
                      o2 \in ExpectOutcomes(<<password_prompt>>,
                                            output.stream \o reply)}
             ELSE {[stream |-> output.stream \o reply,
                    written |-> <<login \o NEWLINE>>,
                    opened |-> 1,
                    handshakes |-> << Handshake(output.index, FALSE,
                                                <<login \o NEWLINE>>) >>]} :
               reply \in LoginReplies}
      ELSE {[stream |-> output.stream, written |-> <<>>, opened |-> 1,
             handshakes |-> << Handshake(output.index, FALSE, <<>>) >>]} :
        output \in ExpectOutcomes(<<prompt, login_prompt>>, s)}

(* a handshake that logs in whenever the shell prompt was not matched *)
HandshakeOutcomes_LoginUnlessPrompt(pw, s) ==
    UNION {
      IF output.index # 0
      THEN UNION {
             IF pw # None
             THEN {[stream |-> o2.stream \o PasswordReply,
                    written |-> <<login \o NEWLINE, pw \o NEWLINE>>,
                    opened |-> 1,
                    handshakes |-> << Handshake(output.index, o2.index = 0,
                                                <<login \o NEWLINE, pw \o NEWLINE>>) >>] :
                      o2 \in ExpectOutcomes(<<password_prompt>>,
                                            output.stream \o reply)}
             ELSE {[stream |-> output.stream \o reply,
                    written |-> <<login \o NEWLINE>>,
                    opened |-> 1,
                    handshakes |-> << Handshake(output.index, FALSE,
                                                <<login \o NEWLINE>>) >>]} :
               reply \in LoginReplies}
      ELSE {[stream |-> output.stream, written |-> <<>>, opened |-> 1,
             handshakes |-> << Handshake(output.index, FALSE, <<>>) >>]} :
        output \in ExpectOutcomes(<<prompt, login_prompt>>, s)}

(* TelnetAdapter.client, first use: open the transport, wait for the shell *)
(* prompt or the login prompt, and log in if it was the login prompt.  The *)
(* password is written once read_until has returned, whatever it found.    *)
(* Each outcome is the stream afterwards, the writes made, the number of   *)
(* transports opened and the handshakes run.                               *)
HandshakeOutcomes(pw, s) ==
    UNION {
      IF output.index = 1
      THEN UNION {
             IF pw # None
             THEN {[stream |-> o2.stream \o PasswordReply,
                    written |-> <<login \o NEWLINE, pw \o NEWLINE>>,
                    opened |-> 1,
                    handshakes |-> << Handshake(output.index, o2.index = 0,
                                                <<login \o NEWLINE, pw \o NEWLINE>>) >>] :
                      o2 \in ExpectOutcomes(<<password_prompt>>,
                                            output.stream \o reply)}
             ELSE {[stream |-> output.stream \o reply,
                    written |-> <<login \o NEWLINE>>,
                    opened |-> 1,
                    handshakes |-> << Handshake(output.index, FALSE,
                                                <<login \o NEWLINE>>) >>]} :
               reply \in LoginReplies}
      ELSE {[stream |-> output.stream, written |-> <<>>, opened |-> 1,
             handshakes |-> << Handshake(output.index, FALSE, <<>>) >>]} :
        output \in ExpectOutcomes(<<prompt, login_prompt>>, s)}

(* a client property that does not look at the handle it already has *)
AdapterClientOutcomes_Reopens(ac, pw, s) == HandshakeOutcomes(pw, s)

(* TelnetAdapter.client: the handle is made on first use only *)
AdapterClientOutcomes(ac, pw, s) ==
    IF ac # "None"
    THEN {[stream |-> s, written |-> <<>>, opened |-> 0, handshakes |-> <<>>]}
    ELSE HandshakeOutcomes(pw, s)

(* what TelnetAdapter.writeline hands to client.write *)
WritelineData(message) == RStrip(message, {"\n"}) \o NEWLINE

(* TelnetOutput.__init__ *)
TelnetOutput(pr, eol, timeout) ==
    [endings |-> <<eol, pr>>, finished |-> FALSE, timeout |-> timeout]

(* an exec_command that writes the command before it drains *)
ExecCommandOutcomes_WriteFirst(ac, pw, s, command, response) ==
    UNION {
      {[stream |-> eager.stream,
        drained |-> eager.text,
        written |-> c.written \o <<WritelineData(command)>>,
        connected |-> c.stream,
        opened |-> c.opened,
        handshakes |-> c.handshakes] :
          eager \in ReadVeryEagerOutcomes(c.stream \o response)} :
        c \in AdapterClientOutcomes(ac, pw, s)}

(* TelnetAdapter.exec_command: connect if needed, drain what was received, *)
(* write the command; the remote shell then answers with `response`.       *)
ExecCommandOutcomes(ac, pw, s, command, response) ==
    UNION {
      {[stream |-> eager.stream \o response,
        drained |-> eager.text,
        written |-> c.written \o <<WritelineData(command)>>,
        connected |-> c.stream,
        opened |-> c.opened,
        handshakes |-> c.handshakes] :
          eager \in ReadVeryEagerOutcomes(c.stream)} :
        c \in AdapterClientOutcomes(ac, pw, s)}

----------------------------------------------------------------------------
(* TelnetOutput (the Output Demultiplexer) *)

(* TelnetOutput.readline: expect is called first, whatever `finished` is.  *)
(* Each outcome is the line returned, the flag and the transport afterwards*)
ReadlineOutcomes(endings, finished, s) ==
    {[line |-> IF finished THEN EOF
               ELSE IF output.index = 0 THEN output.text
               ELSE EOF,
      finished |-> IF finished THEN TRUE
                   ELSE IF output.index = 0 THEN FALSE
                   ELSE TRUE,
      index |-> output.index,
      text |-> output.text,
      stream |-> output.stream] :
        output \in ExpectOutcomes(endings, s)}

(* TelnetOutput.readlines: readline until it returns EOF; every returned   *)
(* value, the EOF included, is appended.  `indices` are the expect results *)
(* and `text` is what the calls took from the transport.                   *)
RECURSIVE ReadlinesOutcomes(_, _, _, _, _, _)
ReadlinesOutcomes(endings, finished, s, lines, indices, text) ==
    UNION {
      IF r.line = EOF
      THEN {[lines |-> Append(lines, r.line), finished |-> r.finished,
             indices |-> Append(indices, r.index), text |-> text \o r.text,
             stream |-> r.stream]}
      ELSE ReadlinesOutcomes(endings, r.finished, r.stream, Append(lines, r.line),
                             Append(indices, r.index), text \o r.text) :
        r \in ReadlineOutcomes(endings, finished, s)}

----------------------------------------------------------------------------
(* The remote shell: what it sends back for one command *)

MaxLines == 2

MaxOutputs == 2

a_line == <<"a">> \o end_of_line

b_line == <<"b">> \o end_of_line

Lines == {a_line, b_line}

LineSeqs == UNION {[1..n -> Lines] : n \in 0..MaxLines}

RECURSIVE Join(_)
Join(ls) == IF ls = <<>> THEN <<>> ELSE Head(ls) \o Join(Tail(ls))

(* N lines, each followed by the line ending, then the prompt *)
ResponseOf(ls) == Join(ls) \o prompt

Responses == {ResponseOf(ls) : ls \in LineSeqs}

----------------------------------------------------------------------------
(* Commands the callers issue *)

ls == <<"l","s">>

cow == <<"c","o","w">>

timeout_name == <<"t","i","m","e","o","u","t">>

path_name == <<"p","a","t","h">>

dash_a == <<"-","a">>

CommandNames == {ls, cow, timeout_name, path_name}

(* names the Channel object has itself, so that __getattr__ is not asked *)
ChannelAttributes == {timeout_name, path_name}

Arguments == {EMPTY_STRING, dash_a}

Timeouts == {NoTimeout, 1}

(* messages handed to writeline: a body, bare or already terminated *)
Bodies == {EMPTY_STRING, ls}

Messages == {body \o ending : body \in Bodies, ending \in {<<>>, NEWLINE, end_of_line}}

----------------------------------------------------------------------------
(* Channel operations *)

AssignPath ==
    \E path \in PathValues :
        /\ SetPath(path)
        /\ last' = [op |-> "path", value |-> path]
        /\ UNCHANGED <<sessionVars, transportVars, outputs, files, threadVars, builderVars, commandVars, manglingVars, counterVars>>

AssignLibraryPath ==
    \E path \in PathValues :
        /\ SetLibraryPath(path)
        /\ last' = [op |-> "library_path", value |-> path]
        /\ UNCHANGED <<sessionVars, transportVars, outputs, files, threadVars, builderVars, commandVars, manglingVars, counterVars>>

AssignCommandPrefix ==
    \E prefix \in PrefixValues :
        /\ SetCommandPrefix(prefix)
        /\ last' = [op |-> "command_prefix", value |-> prefix]
        /\ UNCHANGED <<sessionVars, transportVars, outputs, files, threadVars, builderVars, commandVars, manglingVars, counterVars>>

ReadPrefix ==
    /\ PrefixRead
    /\ last' = [op |-> "prefix", result |-> PrefixValue]
    /\ UNCHANGED <<sessionVars, transportVars, outputs, files, threadVars, builderVars, commandVars, manglingVars, counterVars>>

(* OutputFile(stdout, validate): the ValidatingOutput around the          *)
(* TelnetOutput, not yet at its end                                        *)
OutputFile(lines) == [lines |-> lines, end_of_file |-> FALSE]

(* TelnetConnection._main: SPACER.format(command, arguments) goes to the   *)
(* Session's exec_command, which returns a new TelnetOutput.  The client   *)
(* property creates the TelnetAdapter on first use; the Channel is taken   *)
(* with mangle_prompt=False, so that no prompt change runs there.          *)
Main(entry, name, command, arguments, timeout, response) ==
    LET text == command \o SPACE \o arguments
    IN  \E o \in ExecCommandOutcomes(adapter_client, password, stream, text, response) :
            /\ _client' = "TelnetAdapter"
            /\ adapter_client' = "Telnet"
            /\ telnet_timeout' = timeout
            /\ opened' = opened + o.opened
            /\ handshakes' = handshakes \o o.handshakes
            /\ stream' = o.stream
            /\ outputs' = Append(outputs, TelnetOutput(prompt, end_of_line, ConnectionTimeout))
            /\ files' = Append(files, OutputFile(Len(outputs) + 1))
            /\ last' = [op |-> "call", entry |-> entry, name |-> name,
                        arguments |-> arguments, timeout |-> timeout,
                        main |-> << [command |-> command, arguments |-> arguments,
                                     timeout |-> timeout] >>,
                        exec |-> << [command |-> text, timeout |-> timeout] >>,
                        written |-> o.written,
                        fault |-> "None"]
            /\ UNCHANGED <<password, threadVars, builderVars, commandVars, manglingVars, counterVars>>

(* a _procedure_call that appends the prefix instead of prepending it *)
ProcedureCall_PrefixAfter(entry, name, arguments, timeout, response) ==
    /\ Len(outputs) < MaxOutputs
    /\ PrefixRead
    /\ Main(entry, name, name \o PrefixValue, arguments, timeout, response)

(* NonLocalConnection._procedure_call *)
ProcedureCall(entry, name, arguments, timeout, response) ==
    /\ Len(outputs) < MaxOutputs
    /\ PrefixRead
    /\ Main(entry, name, PrefixValue \o name, arguments, timeout, response)

(* a call that raised before anything was forwarded *)
Raised(entry, name, arguments, timeout, fault) ==
    [op |-> "call", entry |-> entry, name |-> name, arguments |-> arguments,
     timeout |-> timeout, main |-> <<>>, exec |-> <<>>, written |-> <<>>,
     fault |-> fault]

(* a __getattr__ that goes to _main without the prefix *)
GetattrCall_Unprefixed(name, arguments, timeout, response) ==
    /\ Len(outputs) < MaxOutputs
    /\ UNCHANGED channelVars
    /\ Main("name", name, name, arguments, timeout, response)

(* channel.NAME(arguments, timeout).  __getattr__ is consulted only for    *)
(* names the object does not have: `timeout` is an instance attribute (an  *)
(* int) and `path` a property (a string), and calling either raises.       *)
GetattrCall(name, arguments, timeout, response) ==
    IF name \in ChannelAttributes /\ name = timeout_name
    THEN /\ last' = Raised("name", name, arguments, timeout, "TypeError")
         /\ UNCHANGED <<channelVars, sessionVars, transportVars, outputs, files, threadVars, builderVars, commandVars, manglingVars, counterVars>>
    ELSE IF name \in ChannelAttributes /\ name = path_name
    THEN /\ _path' = Defaulted(_path)
         /\ last' = Raised("name", name, arguments, timeout, "TypeError")
         /\ UNCHANGED <<_library_path, _command_prefix, _prefix,
                        sessionVars, transportVars, outputs, files, threadVars, builderVars, commandVars, manglingVars, counterVars>>
    ELSE ProcedureCall("name", name, arguments, timeout, response)

(* channel(NAME, arguments, timeout) *)
DirectCall(name, arguments, timeout, response) ==
    ProcedureCall("direct", name, arguments, timeout, response)

CallByName ==
    \E name \in CommandNames, arguments \in Arguments, timeout \in Timeouts :
        GetattrCall(name, arguments, timeout, prompt)

CallDirect ==
    \E name \in CommandNames, arguments \in Arguments, timeout \in Timeouts :
        DirectCall(name, arguments, timeout, prompt)

----------------------------------------------------------------------------
(* Session and Demultiplexer operations, reached through connection.client *)

(* TelnetAdapter.exec_command called on the Session itself *)
ExecCommand(command, timeout, response) ==
    /\ Len(outputs) < MaxOutputs
    /\ \E o \in ExecCommandOutcomes(adapter_client, password, stream, command, response) :
           /\ _client' = "TelnetAdapter"
           /\ adapter_client' = "Telnet"
           /\ telnet_timeout' = timeout
           /\ opened' = opened + o.opened
           /\ handshakes' = handshakes \o o.handshakes
           /\ stream' = o.stream
           /\ outputs' = Append(outputs, TelnetOutput(prompt, end_of_line, ConnectionTimeout))
           /\ last' = [op |-> "exec_command", command |-> command, timeout |-> timeout,
                       pending |-> stream, connected |-> o.connected,
                       response |-> response,
                       drained |-> o.drained, written |-> o.written,
                       output |-> Len(outputs) + 1, fault |-> "None"]
    /\ UNCHANGED <<channelVars, password, files, threadVars, builderVars, commandVars, manglingVars, counterVars>>

(* TelnetAdapter.writeline *)
Writeline(message, response) ==
    /\ \E c \in AdapterClientOutcomes(adapter_client, password, stream) :
           /\ _client' = "TelnetAdapter"
           /\ adapter_client' = "Telnet"
           /\ telnet_timeout' = IF adapter_client = "None" THEN ConnectionTimeout
                                ELSE telnet_timeout
           /\ opened' = opened + c.opened
           /\ handshakes' = handshakes \o c.handshakes
           /\ stream' = c.stream \o response
           /\ last' = [op |-> "writeline", message |-> message,
                       written |-> c.written \o <<WritelineData(message)>>,
                       fault |-> "None"]
    /\ UNCHANGED <<channelVars, password, outputs, files, threadVars, builderVars, commandVars, manglingVars, counterVars>>

(* a read of the client property of the Session: connect *)
Client ==
    /\ \E c \in AdapterClientOutcomes(adapter_client, password, stream) :
           /\ _client' = "TelnetAdapter"
           /\ adapter_client' = "Telnet"
           /\ telnet_timeout' = IF adapter_client = "None" THEN ConnectionTimeout
                                ELSE telnet_timeout
           /\ opened' = opened + c.opened
           /\ handshakes' = handshakes \o c.handshakes
           /\ stream' = c.stream
           /\ last' = [op |-> "client", written |-> c.written, fault |-> "None"]
    /\ UNCHANGED <<channelVars, password, outputs, files, threadVars, builderVars, commandVars, manglingVars, counterVars>>

(* the two places of exec_command where the socket can fail *)
Stages == {"drain", "write"}

(* TelnetAdapter.exec_command when the socket fails: read_very_eager on a  *)
(* closed connection raises EOFError, write raises socket.error.  Nothing  *)
(* catches either, so the statements that follow do not run.               *)
ExecCommandFails(command, timeout, stage) ==
    /\ \E c \in AdapterClientOutcomes(adapter_client, password, stream) :
         \E eager \in ReadVeryEagerOutcomes(c.stream) :
           /\ _client' = "TelnetAdapter"
           /\ adapter_client' = "Telnet"
           /\ telnet_timeout' = timeout
           /\ opened' = opened + c.opened
           /\ handshakes' = handshakes \o c.handshakes
           /\ stream' = IF stage = "drain" THEN c.stream ELSE eager.stream
           /\ last' = [op |-> "exec_command", command |-> command, timeout |-> timeout,
                       pending |-> stream, connected |-> c.stream,
                       response |-> EMPTY_STRING,
                       drained |-> IF stage = "drain" THEN EMPTY_STRING ELSE eager.text,
                       written |-> c.written,
                       output |-> 0,
                       fault |-> IF stage = "drain" THEN "EOFError" ELSE "socket.error"]
    /\ UNCHANGED <<channelVars, password, outputs, files, threadVars, builderVars, commandVars, manglingVars, counterVars>>

(* a readline that answers a socket failure by dropping the handle, so     *)
(* that the next call connects again                                       *)
ReadlineFails_Reconnects(i) ==
    /\ adapter_client' = "None"
    /\ last' = [op |-> "readline", output |-> i,
                finished_before |-> outputs[i].finished,
                pending |-> stream,
                index |-> -1, text |-> EMPTY_STRING, result |-> None,
                fault |-> "EOFError"]
    /\ UNCHANGED <<channelVars, _client, password, telnet_timeout, opened,
                   handshakes, transportVars, outputs, files, threadVars, builderVars, commandVars, manglingVars, counterVars>>

(* TelnetOutput.readline when expect raises EOFError: nothing catches it,  *)
(* so neither `finished` nor anything of the Session changes               *)
ReadlineFails(i) ==
    /\ last' = [op |-> "readline", output |-> i,
                finished_before |-> outputs[i].finished,
                pending |-> stream,
                index |-> -1, text |-> EMPTY_STRING, result |-> None,
                fault |-> "EOFError"]
    /\ UNCHANGED <<channelVars, sessionVars, transportVars, outputs, files, threadVars, builderVars, commandVars, manglingVars, counterVars>>

(* the wait readline hands to expect: its argument, or the output's own    *)
(* timeout when the argument is None                                       *)
ReadlineWait(configured, timeout) ==
    IF timeout = NoTimeout THEN configured ELSE timeout

(* TelnetOutput.readline(timeout) on the i-th output *)
ReadlineWithin(i, timeout) ==
    \E r \in ReadlineOutcomes(outputs[i].endings, outputs[i].finished, stream) :
        /\ outputs' = [outputs EXCEPT ![i].finished = r.finished]
        /\ stream' = r.stream
        /\ last' = [op |-> "readline", output |-> i,
                    finished_before |-> outputs[i].finished,
                    pending |-> stream,
                    timeout |-> timeout,
                    wait |-> ReadlineWait(outputs[i].timeout, timeout),
                    index |-> r.index, text |-> r.text, result |-> r.line,
                    fault |-> "None"]
        /\ UNCHANGED <<channelVars, sessionVars, files, threadVars, builderVars, commandVars, manglingVars, counterVars>>

(* TelnetOutput.readline() on the i-th output *)
Readline(i) == ReadlineWithin(i, NoTimeout)

(* TelnetOutput.readlines on the i-th output *)
Readlines(i) ==
    \E r \in ReadlinesOutcomes(outputs[i].endings, outputs[i].finished, stream,
                                <<>>, <<>>, <<>>) :
        /\ outputs' = [outputs EXCEPT ![i].finished = r.finished]
        /\ stream' = r.stream
        /\ last' = [op |-> "readlines", output |-> i,
                    finished_before |-> outputs[i].finished,
                    pending |-> stream,
                    indices |-> r.indices, text |-> r.text, result |-> r.lines]
        /\ UNCHANGED <<channelVars, sessionVars, files, threadVars, builderVars, commandVars, manglingVars, counterVars>>

(* a read that strips the line ending off every line *)
ReadOutcomes_Stripped(endings, finished, s) ==
    {[result |-> Join([j \in DOMAIN r.lines |-> RStrip(r.lines[j], {"\r", "\n"})]),
      finished |-> r.finished, indices |-> r.indices,
      text |-> r.text, stream |-> r.stream] :
        r \in ReadlinesOutcomes(endings, finished, s, <<>>, <<>>, <<>>)}

(* TelnetOutput.read: EMPTY_STRING.join(self.readlines()) *)
ReadOutcomes(endings, finished, s) ==
    {[result |-> Join(r.lines),
      finished |-> r.finished, indices |-> r.indices,
      text |-> r.text, stream |-> r.stream] :
        r \in ReadlinesOutcomes(endings, finished, s, <<>>, <<>>, <<>>)}

(* TelnetOutput.read on the i-th output *)
Read(i) ==
    \E r \in ReadOutcomes(outputs[i].endings, outputs[i].finished, stream) :
        /\ outputs' = [outputs EXCEPT ![i].finished = r.finished]
        /\ stream' = r.stream
        /\ last' = [op |-> "read", output |-> i,
                    finished_before |-> outputs[i].finished,
                    pending |-> stream,
                    indices |-> r.indices, text |-> r.text, result |-> r.result]
        /\ UNCHANGED <<channelVars, sessionVars, files, threadVars, builderVars, commandVars, manglingVars, counterVars>>

(* what a validation hook does with one line: TelnetConnection.validate   *)
(* returns; a hook that finds the line invalid raises                      *)
Verdicts == {"returns", "raises"}

(* OutputFile.readline on the i-th OutputFile, whose hook gives `verdict`  *)
(* on the line read.  The hook is called inside the try block, after the   *)
(* line was taken from the TelnetOutput and before it is returned.  An     *)
(* error raised there meets `except socket.timeout`, and the module        *)
(* imports no socket: evaluating the clause raises NameError in place of   *)
(* the error.                                                              *)
FileReadline(i, timeout, verdict) ==
    IF files[i].end_of_file
    THEN /\ last' = [op |-> "file_readline", file |-> i, pending |-> stream,
                     timeout |-> timeout, wait |-> <<>>,
                     validated |-> <<>>, verdict |-> "None",
                     result |-> EOF, fault |-> "None"]
         /\ UNCHANGED <<channelVars, sessionVars, transportVars, outputs, files, threadVars, builderVars, commandVars, manglingVars, counterVars>>
    ELSE LET k == files[i].lines
         IN  \E r \in ReadlineOutcomes(outputs[k].endings, outputs[k].finished, stream) :
                 /\ outputs' = [outputs EXCEPT ![k].finished = r.finished]
                 /\ stream' = r.stream
                 /\ files' = [files EXCEPT ![i].end_of_file = (r.line = EOF)]
                 /\ last' = [op |-> "file_readline", file |-> i, pending |-> stream,
                             timeout |-> timeout,
                             wait |-> <<ReadlineWait(outputs[k].timeout, NoTimeout)>>,
                             validated |-> <<r.line>>, verdict |-> verdict,
                             result |-> IF verdict = "returns" THEN r.line ELSE None,
                             fault |-> IF verdict = "returns" THEN "None"
                                       ELSE "NameError"]
                 /\ UNCHANGED <<channelVars, sessionVars, threadVars, builderVars, commandVars, manglingVars, counterVars>>

SessionExec ==
    \E timeout \in Timeouts, response \in Responses : ExecCommand(ls, timeout, response)

SessionWriteline ==
    \E message \in Messages : Writeline(message, EMPTY_STRING)

OutputReadline == \E i \in DOMAIN outputs : Readline(i)

OutputReadlines == \E i \in DOMAIN outputs : Readlines(i)

OutputRead == \E i \in DOMAIN outputs : Read(i)

----------------------------------------------------------------------------
(* NonLocalConnection.__init__: the three setters run on the constructor's *)
(* arguments, then the cache is emptied                                    *)
ChannelInit(prefixes, paths, library_paths) ==
    \E command_prefix \in prefixes, path \in paths, library_path \in library_paths :
        /\ _command_prefix = IF Len(command_prefix) # 0
                             THEN Strip(command_prefix) \o SPACE
                             ELSE None
        /\ _path = IF path # None THEN PathFormat(path) ELSE None
        /\ _library_path = IF library_path # None
                           THEN LibraryPathFormat(library_path)
                           ELSE None
        /\ _prefix = None
        /\ _client = "None"

(* no thread shares the Channel *)
NoThreads == << >>

(* NonLocalConnection.__init__(lock=None) and the callers' threads *)
ThreadInit(threads) ==
    /\ _lock = 0
    /\ locks = << >>
    /\ thread \in threads

(* TelnetAdapter.__init__, with the remote shell about to greet *)
SessionInit(greetings, passwords) ==
    /\ password \in passwords
    /\ adapter_client = "None"
    /\ telnet_timeout = NoTimeout
    /\ opened = 0
    /\ handshakes = <<>>
    /\ stream \in greetings
    /\ outputs = <<>>
    /\ files = <<>>
    /\ last = [op |-> "init"]

(* NonLocalConnectionBuilder.__init__: nothing set, nothing built (the      *)
(* bundle and the product are references, 0 for None)                      *)
NewBuilder ==
    [_parameters |-> 0, _hostname |-> None, _username |-> None,
     _password |-> None, _port |-> None, _path |-> None,
     _library_path |-> None, _operating_system |-> None, _product |-> 0]

(* a builder that has built nothing, and no connection constructed yet *)
BuilderInit ==
    /\ builder = NewBuilder
    /\ connections = << >>
    /\ adapters = 0

(* TelnetConnection.__init__(mangle_prompt=False): no prompt change, and    *)
(* the Channel's doings not recorded                                       *)
NoMangling ==
    /\ mangle_prompt = FALSE
    /\ events = << >>

(* SharedCounter(count, step), with no call made on it yet *)
SharedCounter(count, step) ==
    [count |-> count, step |-> step, initial |-> count,
     increments |-> 0, decrements |-> 0]

(* SharedCounter(): count=0, step=1 *)
NoCounter ==
    /\ counter = SharedCounter(0, 1)

(* no configuration command constructed *)
NoCommands ==
    /\ commands = << >>

Init ==
    /\ ChannelInit(PrefixValues, PathValues, PathValues)
    /\ SessionInit({prompt}, {None})
    /\ ThreadInit({NoThreads})
    /\ BuilderInit
    /\ NoMangling
    /\ NoCounter
    /\ NoCommands

Next ==
    \/ AssignPath
    \/ AssignLibraryPath
    \/ AssignCommandPrefix
    \/ ReadPrefix
    \/ CallByName
    \/ CallDirect

Spec == Init /\ [][Next]_vars

(* the Session and its Demultiplexers under a Channel left at its defaults *)
InitDemux ==
    /\ ChannelInit({EMPTY_STRING}, {None}, {None})
    /\ SessionInit({prompt}, {None})
    /\ ThreadInit({NoThreads})
    /\ BuilderInit
    /\ NoMangling
    /\ NoCounter
    /\ NoCommands

NextDemux ==
    \/ SessionExec
    \/ SessionWriteline
    \/ OutputReadline
    \/ OutputReadlines

SpecDemux == InitDemux /\ [][NextDemux]_vars

(* commands run and drained to text, one after the other *)
MaxDrains == 1

DrainedExec ==
    /\ Len(outputs) < MaxDrains
    /\ SessionExec

NextRead ==
    \/ DrainedExec
    \/ OutputRead

SpecRead == InitDemux /\ [][NextRead]_vars

(* the Session from its first connect on, with a remote side that greets   *)
(* with the shell prompt, with the login prompt, or not at all             *)
MaxExecs == 1

secret == <<"p","w">>

Passwords == {None, secret}

Greetings == {EMPTY_STRING, prompt, login_prompt}

ShortResponses == {ResponseOf(<<>>), ResponseOf(<<a_line>>)}

SessionConnect == Client

ShortExec ==
    /\ Len(outputs) < MaxExecs
    /\ \E timeout \in Timeouts, response \in ShortResponses :
           ExecCommand(ls, timeout, response)

ShortWriteline == Writeline(ls, EMPTY_STRING)

FailedExec ==
    /\ Len(outputs) < MaxExecs
    /\ \E stage \in Stages : ExecCommandFails(ls, 1, stage)

FailedReadline == \E i \in DOMAIN outputs : ReadlineFails(i)

InitSession ==
    /\ ChannelInit({EMPTY_STRING}, {None}, {None})
    /\ SessionInit(Greetings, Passwords)
    /\ ThreadInit({NoThreads})
    /\ BuilderInit
    /\ NoMangling
    /\ NoCounter
    /\ NoCommands

NextSession ==
    \/ SessionConnect
    \/ ShortExec
    \/ ShortWriteline
    \/ OutputReadline
    \/ FailedExec
    \/ FailedReadline

SpecSession == InitSession /\ [][NextSession]_vars

----------------------------------------------------------------------------
(* Two threads sharing one Channel.  Each issues one command by name and   *)
(* reads its output to the end; a thread of depth d > 0 does so inside d   *)
(* nested acquisitions of connection.lock.  A step is one statement of the *)
(* properties and methods the thread is in, so that the threads interleave *)
(* between the test of a lazily made attribute and its assignment.         *)

Threads == {1, 2}

Depths == {0, 1, 2}

ThreadStart(depth, response) ==
    [pc |-> IF depth = 0 THEN "session" ELSE "lock_check",
     depth |-> depth, held |-> 0, lock |-> 0,
     early |-> FALSE, output |-> 0,
     lines |-> <<>>, indices |-> <<>>, response |-> response]

ThreadStarts ==
    {<<ThreadStart(d1, ResponseOf(<<a_line>>)), ThreadStart(d2, ResponseOf(<<b_line>>))>> :
        d1 \in Depths, d2 \in Depths}

(* connection.lock: `if self._lock is None:` *)
LockCheck(t) ==
    /\ thread[t].pc = "lock_check"
    /\ thread' = [thread EXCEPT ![t].pc = IF _lock = 0 THEN "lock_assign"
                                          ELSE "lock_return"]
    /\ UNCHANGED <<channelVars, sessionVars, transportVars, outputs, files,
                   _lock, locks, last, builderVars, commandVars, manglingVars, counterVars>>

(* connection.lock: `self._lock = threading.RLock()` *)
LockAssign(t) ==
    /\ thread[t].pc = "lock_assign"
    /\ locks' = Append(locks, [owner |-> 0, count |-> 0])
    /\ _lock' = Len(locks) + 1
    /\ thread' = [thread EXCEPT ![t].pc = "lock_return"]
    /\ UNCHANGED <<channelVars, sessionVars, transportVars, outputs, files, last, builderVars, commandVars, manglingVars, counterVars>>

(* connection.lock: `return self._lock` *)
LockReturn(t) ==
    /\ thread[t].pc = "lock_return"
    /\ thread' = [thread EXCEPT ![t].lock = _lock, ![t].pc = "acquire"]
    /\ UNCHANGED <<channelVars, sessionVars, transportVars, outputs, files,
                   _lock, locks, last, builderVars, commandVars, manglingVars, counterVars>>

(* an acquire that does not wait for the owner *)
Acquire_Unowned(t) ==
    LET l == thread[t].lock
    IN  /\ thread[t].pc = "acquire"
        /\ locks' = [locks EXCEPT ![l] = [owner |-> t, count |-> @.count + 1]]
        /\ thread' = [thread EXCEPT ![t].held = @ + 1,
                                    ![t].pc = IF thread[t].held + 1 < thread[t].depth
                                              THEN "acquire" ELSE "session"]
        /\ UNCHANGED <<channelVars, sessionVars, transportVars, outputs, files,
                       _lock, last, builderVars, commandVars, manglingVars, counterVars>>

(* RLock.acquire on the lock the property returned: waits while another    *)
(* thread owns it, counts up when the caller owns it already               *)
Acquire(t) ==
    LET l == thread[t].lock
    IN  /\ thread[t].pc = "acquire"
        /\ locks[l].owner \in {0, t}
        /\ locks' = [locks EXCEPT ![l] = [owner |-> t, count |-> @.count + 1]]
        /\ thread' = [thread EXCEPT ![t].held = @ + 1,
                                    ![t].pc = IF thread[t].held + 1 < thread[t].depth
                                              THEN "acquire" ELSE "session"]
        /\ UNCHANGED <<channelVars, sessionVars, transportVars, outputs, files,
                       _lock, last, builderVars, commandVars, manglingVars, counterVars>>

(* a _procedure_call that waits until the Channel's lock is free *)
ThreadSession_Locking(t) ==
    /\ thread[t].pc = "session"
    /\ _lock # 0 => locks[_lock].owner \in {0, t}
    /\ PrefixRead
    /\ _client' = "TelnetAdapter"
    /\ thread' = [thread EXCEPT ![t].pc = "client_check"]
    /\ UNCHANGED <<password, adapter_client, telnet_timeout, opened, handshakes,
                   transportVars, outputs, files, _lock, locks, last, builderVars, commandVars, manglingVars, counterVars>>

(* _procedure_call up to self.client of the Channel: the prefix is read    *)
(* and the TelnetAdapter made if there is none (taken as one step)         *)
ThreadSession(t) ==
    /\ thread[t].pc = "session"
    /\ PrefixRead
    /\ _client' = "TelnetAdapter"
    /\ thread' = [thread EXCEPT ![t].pc = "client_check"]
    /\ UNCHANGED <<password, adapter_client, telnet_timeout, opened, handshakes,
                   transportVars, outputs, files, _lock, locks, last, builderVars, commandVars, manglingVars, counterVars>>

(* TelnetAdapter.client: `if self._client is None:` *)
ClientCheck(t) ==
    /\ thread[t].pc = "client_check"
    /\ thread' = [thread EXCEPT ![t].pc = IF adapter_client = "None"
                                          THEN "client_open" ELSE "drain"]
    /\ UNCHANGED <<channelVars, sessionVars, transportVars, outputs, files,
                   _lock, locks, last, builderVars, commandVars, manglingVars, counterVars>>

(* TelnetAdapter.client: `self._client = telnetlib.Telnet(...)`.  A second *)
(* Telnet object replaces the first, whose unread text goes with it; the   *)
(* new connection is greeted anew.                                         *)
ClientOpen(t) ==
    /\ thread[t].pc = "client_open"
    /\ opened' = opened + 1
    /\ adapter_client' = "Telnet"
    /\ telnet_timeout' = ConnectionTimeout
    /\ stream' = IF opened = 0 THEN stream ELSE prompt
    /\ thread' = [thread EXCEPT ![t].pc = "client_expect"]
    /\ UNCHANGED <<channelVars, _client, password, handshakes, outputs, files,
                   _lock, locks, last, builderVars, commandVars, manglingVars, counterVars>>

(* TelnetAdapter.client: the expect and the writes of the handshake, on    *)
(* the Telnet object self._client holds by now                             *)
ClientExpect(t) ==
    /\ thread[t].pc = "client_expect"
    /\ \E o \in HandshakeOutcomes(password, stream) :
           /\ stream' = o.stream
           /\ handshakes' = handshakes \o o.handshakes
    /\ thread' = [thread EXCEPT ![t].pc = "drain"]
    /\ UNCHANGED <<channelVars, _client, password, adapter_client, telnet_timeout,
                   opened, outputs, files, _lock, locks, last, builderVars, commandVars, manglingVars, counterVars>>

(* exec_command: `self.client.timeout = timeout` and read_very_eager() *)
ThreadDrain(t) ==
    /\ thread[t].pc = "drain"
    /\ \E eager \in ReadVeryEagerOutcomes(stream) : stream' = eager.stream
    /\ telnet_timeout' = NoTimeout
    /\ thread' = [thread EXCEPT ![t].pc = "write"]
    /\ UNCHANGED <<channelVars, _client, password, adapter_client, opened,
                   handshakes, outputs, files, _lock, locks, last, builderVars, commandVars, manglingVars, counterVars>>

(* exec_command: writeline(command) and the TelnetOutput, which _main      *)
(* wraps; the remote shell answers the command                             *)
ThreadWrite(t) ==
    /\ thread[t].pc = "write"
    /\ stream' = stream \o thread[t].response
    /\ outputs' = Append(outputs, TelnetOutput(prompt, end_of_line, ConnectionTimeout))
    /\ files' = Append(files, OutputFile(Len(outputs) + 1))
    /\ thread' = [thread EXCEPT ![t].pc = "readline",
                                ![t].output = Len(outputs) + 1,
                                ![t].early = (Len(handshakes) < opened)]
    /\ UNCHANGED <<channelVars, sessionVars, _lock, locks, last, builderVars, commandVars, manglingVars, counterVars>>

(* one readline of the thread's output; the thread stops at EOF *)
ThreadReadline(t) ==
    LET i == thread[t].output
    IN  /\ thread[t].pc = "readline"
        /\ \E r \in ReadlineOutcomes(outputs[i].endings, outputs[i].finished, stream) :
               /\ outputs' = [outputs EXCEPT ![i].finished = r.finished]
               /\ stream' = r.stream
               /\ thread' = [thread EXCEPT
                     ![t].lines = IF r.line = EOF THEN @ ELSE Append(@, r.line),
                     ![t].indices = Append(@, r.index),
                     ![t].pc = IF r.line # EOF THEN "readline"
                               ELSE IF thread[t].depth = 0 THEN "done"
                               ELSE "release"]
        /\ UNCHANGED <<channelVars, sessionVars, files, _lock, locks, last, builderVars, commandVars, manglingVars, counterVars>>

(* RLock.release *)
Release(t) ==
    LET l == thread[t].lock
    IN  /\ thread[t].pc = "release"
        /\ locks' = [locks EXCEPT ![l] = [owner |-> IF @.count = 1 THEN 0 ELSE t,
                                          count |-> @.count - 1]]
        /\ thread' = [thread EXCEPT ![t].held = @ - 1,
                                    ![t].pc = IF thread[t].held = 1 THEN "done"
                                              ELSE "release"]
        /\ UNCHANGED <<channelVars, sessionVars, transportVars, outputs, files,
                       _lock, last, builderVars, commandVars, manglingVars, counterVars>>

(* the steps of a thread inside the Channel and the Session *)
ThreadCall(t) ==
    \/ ThreadSession(t)
    \/ ClientCheck(t)
    \/ ClientOpen(t)
    \/ ClientExpect(t)
    \/ ThreadDrain(t)
    \/ ThreadWrite(t)
    \/ ThreadReadline(t)

InitThreads ==
    /\ ChannelInit({EMPTY_STRING}, {None}, {None})
    /\ SessionInit({prompt}, {None})
    /\ ThreadInit(ThreadStarts)
    /\ BuilderInit
    /\ NoMangling
    /\ NoCounter
    /\ NoCommands

NextThreads ==
    \E t \in Threads :
        \/ LockCheck(t)
        \/ LockAssign(t)
        \/ LockReturn(t)
        \/ Acquire(t)
        \/ ThreadCall(t)
        \/ Release(t)

SpecThreads == InitThreads /\ [][NextThreads]_vars

(* a thread that takes the lock twice beside a thread that takes no lock *)
InitAdvisory ==
    /\ ChannelInit({EMPTY_STRING}, {None}, {None})
    /\ SessionInit({prompt}, {None})
    /\ ThreadInit({<<ThreadStart(2, ResponseOf(<<a_line>>)),
                     ThreadStart(0, ResponseOf(<<b_line>>))>>})
    /\ BuilderInit
    /\ NoMangling
    /\ NoCounter
    /\ NoCommands

SpecAdvisory == InitAdvisory /\ [][NextThreads]_vars

----------------------------------------------------------------------------
(* the line source a Channel call returns, read with a validation hook *)
FileCall ==
    \E response \in Responses : DirectCall(ls, EMPTY_STRING, NoTimeout, response)

(* the timeouts a caller passes to a readline: the default of             *)
(* OutputFile.readline and a shorter one                                   *)
ExplicitTimeouts == {1, 10}

OutputFileReadline ==
    \E i \in DOMAIN files, timeout \in ExplicitTimeouts, verdict \in Verdicts :
        FileReadline(i, timeout, verdict)

NextFile ==
    \/ FileCall
    \/ OutputFileReadline

SpecFile == InitDemux /\ [][NextFile]_vars

(* the same line sources, read through the OutputFile or directly, with   *)
(* the timeout the caller chooses for each read                            *)
OutputReadlineWithin ==
    \E i \in DOMAIN outputs, timeout \in ExplicitTimeouts \cup {NoTimeout} :
        ReadlineWithin(i, timeout)

FirstFileCall ==
    /\ Len(outputs) < MaxExecs
    /\ FileCall

NextWaits ==
    \/ FirstFileCall
    \/ OutputFileReadline
    \/ OutputReadlineWithin

SpecWaits == InitDemux /\ [][NextWaits]_vars

----------------------------------------------------------------------------
(* Properties of the prefix (checked under Spec) *)

(* the three parts as their getters return them, in the fixed order *)
PartsInOrder == Defaulted(_path) \o Defaulted(_library_path) \o Defaulted(_command_prefix)

ClearingRemovesContribution ==
    /\ (last.op = "path" /\ last.value = None) =>
           PrefixValue = Defaulted(_library_path) \o Defaulted(_command_prefix)
    /\ (last.op = "library_path" /\ last.value = None) =>
           PrefixValue = Defaulted(_path) \o Defaulted(_command_prefix)
    /\ (last.op = "command_prefix" /\ last.value = EMPTY_STRING) =>
           PrefixValue = Defaulted(_path) \o Defaulted(_library_path)

(* C3: assigning V to path makes the PATH part 'PATH=V:$PATH;', assigning  *)
(* V to library_path makes its part                                        *)
(* 'export LD_LIBRARY_PATH=V:$LD_LIBRARY_PATH;'; None contributes the      *)
(* empty text, the empty string the wrapper around an empty V.             *)
PartsAreLiteral ==
    /\ last.op = "path" =>
         Defaulted(_path) =
           CASE last.value = None -> <<>>
             [] last.value = EMPTY_STRING ->
                  <<"P","A","T","H","=",":","$","P","A","T","H",";">>
             [] last.value = ape ->
                  <<"P","A","T","H","=","a","p","e",":","$","P","A","T","H",";">>
             [] last.value = usr_lib ->
                  <<"P","A","T","H","=","/","u","s","r","/","l","i","b",
                    ":","$","P","A","T","H",";">>
    /\ last.op = "library_path" =>
         Defaulted(_library_path) =
           CASE last.value = None -> <<>>
             [] last.value = EMPTY_STRING ->
                  <<"e","x","p","o","r","t"," ",
                    "L","D","_","L","I","B","R","A","R","Y","_","P","A","T","H","=",
                    ":","$","L","D","_","L","I","B","R","A","R","Y","_","P","A","T","H",";">>
             [] last.value = ape ->
                  <<"e","x","p","o","r","t"," ",
                    "L","D","_","L","I","B","R","A","R","Y","_","P","A","T","H","=",
                    "a","p","e",
                    ":","$","L","D","_","L","I","B","R","A","R","Y","_","P","A","T","H",";">>
             [] last.value = usr_lib ->
                  <<"e","x","p","o","r","t"," ",
                    "L","D","_","L","I","B","R","A","R","Y","_","P","A","T","H","=",
                    "/","u","s","r","/","l","i","b",
                    ":","$","L","D","_","L","I","B","R","A","R","Y","_","P","A","T","H",";">>

(* library_path was just assigned the empty string while path is unset:    *)
(* the two states differ in what they contribute                           *)
EmptyLibraryPathBesideUnsetPath ==
    /\ last.op = "library_path"
    /\ last.value = EMPTY_STRING
    /\ _path = None
    /\ Len(PrefixValue) = Len(LIBRARY_HEAD) + Len(LIBRARY_TAIL)

----------------------------------------------------------------------------
(* Properties of the forwarding (checked under Spec) *)

(* the one forwarding call the last invocation has to have made *)
ForwardedOnce ==
    /\ last.fault = "None"
    /\ last.main = << [command |-> PrefixValue \o last.name,
                       arguments |-> last.arguments,
                       timeout |-> last.timeout] >>
    /\ Len(last.exec) = 1
    /\ last.exec[1].timeout = last.timeout

(* C4 as stated: for every command name, channel.NAME(arguments, timeout)  *)
(* and channel(NAME, arguments, timeout) both make exactly one forwarding  *)
(* call with (prefix + NAME, arguments, timeout).                          *)
ByNameIsDirectForEveryName ==
    last.op = "call" => ForwardedOnce

(* C4 amended: the same, for every command name that is not the name of an *)
(* attribute the Channel object has itself.                                *)
ByNameIsDirectForUnboundNames ==
    (last.op = "call" /\ (last.entry = "direct" \/ last.name \notin ChannelAttributes))
        => ForwardedOnce

(* channel.cow('-a', 1) with path 'ape', as in test_getattr *)
CowCalledByName ==
    /\ last.op = "call"
    /\ last.entry = "name"
    /\ last.name = cow
    /\ last.arguments = dash_a
    /\ last.timeout = 1
    /\ last.main[1].command =
         <<"P","A","T","H","=","a","p","e",":","$","P","A","T","H",";","c","o","w">>

(* the state of the scenario: PATH unset, LIBRARY-PATH '/usr/lib',         *)
(* command prefix unset, 'ls' issued with no arguments                     *)
LsWithLibraryPath ==
    /\ last.op = "call"
    /\ last.name = ls
    /\ last.arguments = EMPTY_STRING
    /\ last.fault = "None"
    /\ Defaulted(_path) = EMPTY_STRING
    /\ Defaulted(_command_prefix) = EMPTY_STRING
    /\ _library_path = LIBRARY_HEAD \o usr_lib \o LIBRARY_TAIL

export_usr_lib_ls ==
    <<"e","x","p","o","r","t"," ",
      "L","D","_","L","I","B","R","A","R","Y","_","P","A","T","H","=",
      "/","u","s","r","/","l","i","b",
      ":","$","L","D","_","L","I","B","R","A","R","Y","_","P","A","T","H",";",
      "l","s">>

(* C5 as stated: in that scenario the text the Channel hands to the        *)
(* Session is exactly 'export LD_LIBRARY_PATH=/usr/lib:$LD_LIBRARY_PATH;ls'*)
ForwardedTextIsPrefixedCommand ==
    LsWithLibraryPath => last.exec[1].command = export_usr_lib_ls

(* C5 amended: in that scenario the command the forwarding routine passes  *)
(* on is exactly that text, with empty arguments; the text handed to the   *)
(* Session is the command, one space and the (empty) arguments, and the    *)
(* Session writes it followed by one newline.                              *)
ForwardedTextIsCommandSpaceArguments ==
    LsWithLibraryPath =>
        /\ last.main[1].command = export_usr_lib_ls
        /\ last.main[1].arguments = EMPTY_STRING
        /\ last.exec[1].command = export_usr_lib_ls \o <<" ">>
        /\ last.written[Len(last.written)] = export_usr_lib_ls \o <<" ", "\n">>

(* the scenario reached through the direct entry point *)
LsWithLibraryPathCalledDirectly ==
    /\ LsWithLibraryPath
    /\ last.entry = "direct"
    /\ last.timeout = NoTimeout

----------------------------------------------------------------------------
(* Properties of the Session and the Demultiplexer (checked under SpecDemux) *)

(* C6: writeline terminates every message exactly once: writeline(body),   *)
(* writeline(body + '\n') and writeline(body + '\r\n') write the same      *)
(* data, the body followed by one line ending.                             *)
WritelineTerminatesOnce ==
    last.op = "writeline" =>
        \A body \in Bodies :
            last.message \in {body, body \o <<"\n">>, body \o <<"\r","\n">>} =>
                /\ last.written[Len(last.written)] = WritelineData(body)
                /\ Take(last.written[Len(last.written)], Len(body)) = body
                /\ Drop(last.written[Len(last.written)], Len(body)) \in {<<"\n">>, <<"\r","\n">>}

(* the lines of a stream made of N lines and the prompt *)
LinesOfResponse(s) == CHOOSE seq \in LineSeqs : ResponseOf(seq) = s

(* C7: when the transport delivers N lines, each followed by the line      *)
(* ending, and then the prompt, readlines returns exactly those N lines in *)
(* order and nothing else, and every later readline returns EOF.           *)
DrainReturnsExactlyTheLines ==
    /\ ( /\ last.op = "readlines"
         /\ ~last.finished_before
         /\ last.pending \in Responses
         /\ \A j \in DOMAIN last.indices : last.indices[j] # -1 )
       => last.result = LinesOfResponse(last.pending)
    /\ (last.op = "readline" /\ last.finished_before) => last.result = EOF

(* C8: a readline whose wait elapses with no pattern matched returns a     *)
(* transient signal that is not the end-of-stream sentinel and leaves the  *)
(* Demultiplexer ACTIVE, so that the line or the prompt is read later.     *)
TimeoutIsTransient ==
    (last.op = "readline" /\ ~last.finished_before /\ last.index = -1) =>
        /\ last.result # EOF
        /\ ~outputs[last.output].finished

(* C9: a readline on a FINISHED Demultiplexer returns EOF without taking   *)
(* anything from the transport stream.                                     *)
FinishedReadlineLeavesStream ==
    (last.op = "readline" /\ last.finished_before) =>
        /\ last.result = EOF
        /\ last.text = <<>>
        /\ stream = last.pending

(* C10: a Demultiplexer starts ACTIVE, becomes FINISHED only when a        *)
(* readline matches the prompt, and never returns to ACTIVE.               *)
FinishedOnlyByPrompt ==
    /\ last.op = "exec_command" => ~outputs[last.output].finished
    /\ (last.op = "readline" /\ ~last.finished_before /\ outputs[last.output].finished)
           => last.index = 1
    /\ (last.op \in {"readline", "readlines"} /\ last.finished_before)
           => outputs[last.output].finished

----------------------------------------------------------------------------
(* Properties of draining to text (checked under SpecRead) *)

(* C11: read leaves the Demultiplexer FINISHED; when the transport holds   *)
(* N lines, each with its line ending, and then the prompt, and no wait    *)
(* elapses, read returns those lines joined in order, line endings         *)
(* included, and the prompt is not part of the text.                       *)
ReadReturnsTheLinesJoined ==
    last.op = "read" =>
        /\ outputs[last.output].finished
        /\ ( /\ ~last.finished_before
             /\ last.pending \in Responses
             /\ \A j \in DOMAIN last.indices : last.indices[j] # -1 )
           => /\ last.result = Join(LinesOfResponse(last.pending))
              /\ last.result \o prompt = last.pending
              /\ stream = <<>>

(* the lines 'a\r\n' and 'b\r\n', then '#', drained to 'a\r\nb\r\n' *)
TwoLinesReadAsText ==
    /\ last.op = "read"
    /\ ~last.finished_before
    /\ last.pending = <<"a","\r","\n","b","\r","\n","#">>
    /\ last.indices = <<0, 0, 1>>
    /\ last.result = <<"a","\r","\n","b","\r","\n">>
    /\ outputs[last.output].finished

----------------------------------------------------------------------------
(* Properties of the Session (checked under SpecSession) *)

(* the operations a caller makes on the Session *)
SessionOps == {"client", "exec_command", "writeline"}

(* C12: over any sequence of connect, exec_command and writeline calls of  *)
(* one caller the Session opens at most one transport and runs at most one *)
(* login handshake: both happen in the first call, and a call made on a    *)
(* connected Session writes nothing but its own text.                      *)
TransportOpenedAtMostOnce ==
    /\ opened <= 1
    /\ Len(handshakes) <= 1
    /\ Len(handshakes) = opened
    /\ (adapter_client = "Telnet") <=> (opened = 1)
    /\ (last.op \in SessionOps /\ handshakes # <<>>) =>
          \/ last.written = handshakes[1].written
          \/ last.written = handshakes[1].written \o <<ls \o NEWLINE>>
          \/ last.written = <<>>
          \/ last.written = <<ls \o NEWLINE>>

(* a writeline after an exec_command on a Session that logged in earlier *)
WritelineReusesTransport ==
    /\ last.op = "writeline"
    /\ Len(outputs) = 1
    /\ opened = 1
    /\ handshakes[1].index = 1
    /\ last.written = <<ls \o NEWLINE>>

(* C13 as stated: the login name is written followed by the configured     *)
(* line ending (end_of_line) exactly when the login prompt was matched.    *)
LoginEndsWithConfiguredEnding ==
    \A j \in DOMAIN handshakes :
        handshakes[j].index = 1 => handshakes[j].written[1] = login \o end_of_line

(* C13 amended: in the first connect the Session writes the login name     *)
(* followed by a newline if and only if the login prompt was matched; with *)
(* a password configured it then waits for the password prompt and writes  *)
(* the password and a newline after the login name; when the shell prompt  *)
(* was matched, or nothing was, it writes nothing.                         *)
LoginWrittenIffLoginPrompt ==
    \A j \in DOMAIN handshakes :
        LET h == handshakes[j]
        IN  /\ (h.index = 1) <=> (h.written # <<>>)
            /\ h.index = 1 => h.written[1] = login \o <<"\n">>
            /\ (h.index = 1 /\ password = None) => h.written = <<login \o <<"\n">> >>
            /\ (h.index = 1 /\ password # None) =>
                   h.written = <<login \o <<"\n">>, password \o <<"\n">> >>
            /\ h.found => (h.index = 1 /\ password # None)

(* login prompt matched, password prompt found, both credentials written *)
LoggedInWithPassword ==
    /\ handshakes # <<>>
    /\ handshakes[1].index = 1
    /\ handshakes[1].found
    /\ handshakes[1].written = << <<"r","o","o","t","\n">>, <<"p","w","\n">> >>

(* C14: when the wait of the connect elapses with neither prompt matched,  *)
(* the connect raises nothing and writes no credentials, the Session keeps *)
(* the handle it opened, and no later call opens a transport or runs the   *)
(* handshake again.                                                        *)
FailedHandshakeFallsThrough ==
    (handshakes # <<>> /\ handshakes[1].index = -1) =>
        /\ handshakes[1].written = <<>>
        /\ adapter_client = "Telnet"
        /\ opened = 1
        /\ Len(handshakes) = 1
        /\ last.op \in SessionOps =>
              \A j \in DOMAIN last.written :
                  last.written[j] \notin {login \o NEWLINE, secret \o NEWLINE}
        /\ last.op = "client" => (last.fault = "None" /\ last.written = <<>>)

(* a remote side that stayed silent, and a command written all the same *)
ExecAfterSilentConnect ==
    /\ handshakes # <<>>
    /\ handshakes[1].index = -1
    /\ last.op = "exec_command"
    /\ last.fault = "None"
    /\ last.pending = EMPTY_STRING
    /\ last.written = << <<"l","s","\n">> >>

(* C15: exec_command drains what is buffered, then writes the command with *)
(* one newline after it, then returns a new TelnetOutput that is ACTIVE    *)
(* and has the Session's end_of_line and prompt as its endings.  What was  *)
(* drained is gone from the transport, and the answer to the command is    *)
(* whole behind what was not yet received, so no drained byte becomes a    *)
(* line of the new TelnetOutput.                                           *)
ExecDrainsThenWrites ==
    (last.op = "exec_command" /\ last.fault = "None") =>
        /\ Len(last.drained) <= Len(last.connected)
        /\ last.drained = Take(last.connected, Len(last.drained))
        /\ stream = Drop(last.connected, Len(last.drained)) \o last.response
        /\ last.written[Len(last.written)] = last.command \o <<"\n">>
        /\ last.command[Len(last.command)] \notin {"\r", "\n"}
        /\ last.output = Len(outputs)
        /\ ~outputs[last.output].finished
        /\ outputs[last.output].endings = << <<"\r","\n">>, <<"#">> >>

(* a prompt that was buffered when exec_command was called is drained *)
BufferedPromptDrained ==
    /\ last.op = "exec_command"
    /\ last.fault = "None"
    /\ last.connected = <<"#">>
    /\ last.drained = <<"#">>
    /\ last.response = <<"a","\r","\n","#">>
    /\ stream = <<"a","\r","\n","#">>

(* C19: a socket failure in the drain or the write of exec_command, or in  *)
(* a readline, reaches the caller as a fault: no TelnetOutput is returned, *)
(* no line is.  The Session keeps its handle, and no step made on a        *)
(* connected Session ever opens a transport or runs a handshake.           *)
SocketFaultPropagates ==
    /\ [](last.op \in {"exec_command", "readline"} /\ last.fault # "None" =>
            /\ adapter_client = "Telnet"
            /\ opened = 1
            /\ Len(handshakes) = 1
            /\ last.op = "exec_command" => last.output = 0
            /\ last.op = "readline" => last.result = None)
    /\ [][adapter_client = "Telnet" =>
            /\ adapter_client' = "Telnet"
            /\ opened' = opened
            /\ handshakes' = handshakes]_vars

(* the write of an exec_command failed on a connected Session *)
WriteFailedAfterConnect ==
    /\ last.op = "exec_command"
    /\ last.fault = "socket.error"
    /\ last.pending = last.connected
    /\ adapter_client = "Telnet"
    /\ opened = 1

----------------------------------------------------------------------------
(* Properties of the validated line source (checked under SpecFile) *)

(* C20: the hook is called on every line the line source emits, before the *)
(* line is returned; when the hook raises, its error is what the caller    *)
(* gets, and the line source stays usable: the next readline reads on      *)
(* where this one stopped.                                                 *)
ValidationErrorReachesCaller ==
    last.op = "file_readline" =>
        /\ last.verdict # "None" => Len(last.validated) = 1
        /\ last.verdict = "returns" =>
              (last.result = last.validated[1] /\ last.fault = "None")
        /\ last.verdict = "raises" => last.fault = "OutputValidationError"
        /\ (last.verdict = "raises" /\ last.validated[1] # EOF) =>
              /\ ~files[last.file].end_of_file
              /\ ~outputs[files[last.file].lines].finished

----------------------------------------------------------------------------
(* Properties of the threads (checked under SpecThreads) *)

(* the positions between the last acquire and the first release: the       *)
(* exec-plus-drain cycle                                                   *)
CyclePcs == {"session", "client_check", "client_open", "client_expect",
             "drain", "write", "readline"}

(* thread t takes the lock that is the Channel's *)
UsesChannelLock(t) ==
    /\ thread[t].depth > 0
    /\ thread[t].lock # 0
    /\ thread[t].lock = _lock

(* no wait of the connect or of thread t's reads elapsed without a match *)
NoWaitElapsed(t) ==
    /\ handshakes # << >>
    /\ handshakes[1].index = 0
    /\ \A j \in DOMAIN thread[t].indices : thread[t].indices[j] # -1

UnlockedCallsKeepState ==
    (thread[1].depth = 0 /\ thread[2].depth = 0) =>
        /\ _client \in {"None", "TelnetAdapter"}
        /\ opened <= 1
        /\ Len(handshakes) <= 1
        /\ \A t \in Threads : ~thread[t].early
        /\ PrefixValue = PartsInOrder

(* the acquisitions of lock l its callers have made and not yet released *)
Held(l) ==
    (IF thread[1].lock = l THEN thread[1].held ELSE 0)
      + (IF thread[2].lock = l THEN thread[2].held ELSE 0)

(* C18: the lock is advisory and re-entrant.  Its count is at every moment *)
(* what the callers themselves acquired, so no step inside the Channel or  *)
(* the Session takes or frees it; a thread inside a command can take its   *)
(* next step whoever owns the lock; the owner can acquire again.           *)
LockIsAdvisoryAndReentrant ==
    /\ \A l \in DOMAIN locks :
          /\ locks[l].count = Held(l)
          /\ (locks[l].owner = 0) <=> (locks[l].count = 0)
          /\ locks[l].owner # 0 => thread[locks[l].owner].lock = l
    /\ \A t \in Threads :
          /\ ( /\ thread[t].pc \in CyclePcs
               /\ \E l \in DOMAIN locks : locks[l].owner \notin {0, t} )
                => ENABLED ThreadCall(t)
          /\ (thread[t].pc = "acquire" /\ locks[thread[t].lock].owner = t)
                => ENABLED Acquire(t)

(* thread 1 holds the lock twice and is reading; thread 2, which takes no  *)
(* lock, has written its command after thread 1 wrote its own              *)
CommandIssuedBesideTheHolder ==
    /\ thread[1].depth = 2
    /\ thread[1].pc = "readline"
    /\ locks[thread[1].lock] = [owner |-> 1, count |-> 2]
    /\ thread[1].output = 1
    /\ thread[2].depth = 0
    /\ thread[2].output = 2

----------------------------------------------------------------------------
(* TelnetConnectionBuilder: one TelnetConnection out of a parameter bundle. *)
(* Objects are referred to by their position in the sequence that holds    *)
(* them; the reference 0 is None.                                          *)

(* what the bundle holds in the place of an attribute it does not have *)
NoAttribute == <<"AttributeError">>

host_a == <<"h","a">>

host_b == <<"h","b">>

root == <<"r","o","o","t">>

two_paths == <<"/","a"," "," ","/","b">>

(* a ConnectionParameters named tuple: every field present, None if unset *)
ConnectionParameters(hostname, username, path) ==
    [hostname |-> hostname, address |-> NoAttribute,
     username |-> username, login |-> NoAttribute,
     password |-> None, operating_system |-> None,
     path |-> path, library_path |-> None, port |-> None]

(* a bundle of another type, with the attributes its maker chose *)
OtherParameters(hostname, address, username, login_name, port) ==
    [hostname |-> hostname, address |-> address,
     username |-> username, login |-> login_name,
     password |-> NoAttribute, operating_system |-> NoAttribute,
     path |-> NoAttribute, library_path |-> NoAttribute, port |-> port]

(* the bundles a caller assigns to builder.parameters *)
ParameterBundles ==
    << ConnectionParameters(host_a, root, None),
       ConnectionParameters(host_b, root, two_paths),
       ConnectionParameters(None, root, None),
       OtherParameters(NoAttribute, host_a, NoAttribute, root, None),
       OtherParameters(NoAttribute, NoAttribute, root, NoAttribute, None),
       OtherParameters(host_a, NoAttribute, NoAttribute, NoAttribute, None),
       OtherParameters(host_a, NoAttribute, root, NoAttribute, NoAttribute) >>

BundleReferences == 0 .. Len(ParameterBundles)

(* ":".join(text.split()) *)
RECURSIVE ColonJoin(_)
ColonJoin(text) ==
    LET s == Strip(text) IN
    IF s = <<>> THEN <<>>
    ELSE IF Len(s) > 1 /\ s[2] \in Whitespace
         THEN <<Head(s), ":">> \o ColonJoin(Tail(s))
         ELSE <<Head(s)>> \o ColonJoin(Tail(s))

(* the result of reading one property of the builder *)
Got(b, fault) == [builder |-> b, fault |-> fault]

(* the next property is read only if the one before raised nothing *)
Then(r, Getter(_)) == IF r.fault # "None" THEN r ELSE Getter(r.builder)

(* TelnetConnectionBuilder.hostname: the name `errors` of its last raise   *)
(* is bound nowhere in the module                                          *)
BuilderHostname(b) ==
    IF b._hostname # None THEN Got(b, "None")
    ELSE IF b._parameters = 0 THEN Got(b, "ConfigurationError")
    ELSE LET p == ParameterBundles[b._parameters] IN
         IF p.hostname # NoAttribute
         THEN Got([b EXCEPT !._hostname = p.hostname], "None")
         ELSE IF p.address # NoAttribute
         THEN Got([b EXCEPT !._hostname = p.address], "None")
         ELSE Got(b, "NameError")

(* TelnetConnectionBuilder.username *)
BuilderUsername(b) ==
    IF b._username # None THEN Got(b, "None")
    ELSE IF b._parameters = 0 THEN Got(b, "ConfigurationError")
    ELSE LET p == ParameterBundles[b._parameters] IN
         IF p.username # NoAttribute
         THEN Got([b EXCEPT !._username = p.username], "None")
         ELSE IF p.login # NoAttribute
         THEN Got([b EXCEPT !._username = p.login], "None")
         ELSE Got(b, "NameError")

(* TelnetConnectionBuilder.password *)
BuilderPassword(b) ==
    IF b._password # None THEN Got(b, "None")
    ELSE IF b._parameters = 0 THEN Got(b, "ConfigurationError")
    ELSE LET p == ParameterBundles[b._parameters] IN
         IF p.password # NoAttribute
         THEN Got([b EXCEPT !._password = p.password], "None")
         ELSE Got(b, "None")

(* TelnetConnectionBuilder.port *)
BuilderPort(b) ==
    IF b._port # None THEN Got(b, "None")
    ELSE IF b._parameters = 0 THEN Got(b, "ConfigurationError")
    ELSE LET p == ParameterBundles[b._parameters] IN
         IF p.port # NoAttribute
         THEN Got([b EXCEPT !._port = p.port], "None")
         ELSE Got(b, "AttributeError")

(* TelnetConnectionBuilder.path: None has no split, which is caught too *)
BuilderPath(b) ==
    IF b._path # None THEN Got(b, "None")
    ELSE IF b._parameters = 0 THEN Got(b, "ConfigurationError")
    ELSE LET p == ParameterBundles[b._parameters] IN
         IF p.path \notin {NoAttribute, None}
         THEN Got([b EXCEPT !._path = ColonJoin(p.path)], "None")
         ELSE Got(b, "None")

(* TelnetConnectionBuilder.library_path *)
BuilderLibraryPath(b) ==
    IF b._library_path # None THEN Got(b, "None")
    ELSE IF b._parameters = 0 THEN Got(b, "ConfigurationError")
    ELSE LET p == ParameterBundles[b._parameters] IN
         IF p.library_path \notin {NoAttribute, None}
         THEN Got([b EXCEPT !._library_path = ColonJoin(p.library_path)], "None")
         ELSE Got(b, "None")

(* TelnetConnectionBuilder.operating_system *)
BuilderOperatingSystem(b) ==
    IF b._operating_system # None THEN Got(b, "None")
    ELSE IF b._parameters = 0 THEN Got(b, "ConfigurationError")
    ELSE LET p == ParameterBundles[b._parameters] IN
         IF p.operating_system # NoAttribute
         THEN Got([b EXCEPT !._operating_system = p.operating_system], "None")
         ELSE Got(b, "None")

(* the keyword arguments of the TelnetConnection call, read left to right *)
ProductArguments(b) ==
    Then(Then(Then(Then(Then(Then(BuilderHostname(b),
        BuilderUsername), BuilderPassword), BuilderPort), BuilderPath),
        BuilderLibraryPath), BuilderOperatingSystem)

(* the capabilities NonLocalConnection declares abstract *)
Abstract == {"client", "port", "_main"}

(* TelnetConnection.__init__ over NonLocalConnection.__init__ *)
TelnetConnection(b) ==
    [class |-> "TelnetConnection", supplied |-> Abstract,
     hostname |-> b._hostname, username |-> b._username,
     password |-> b._password, _port |-> b._port,
     _path |-> IF b._path # None THEN PathFormat(b._path) ELSE None,
     _library_path |-> IF b._library_path # None
                       THEN LibraryPathFormat(b._library_path) ELSE None,
     operating_system |-> b._operating_system,
     _client |-> 0]

(* TelnetConnectionBuilder.product, that builds on every read *)
ProductOutcome_Rebuilds(b) ==
    LET r == ProductArguments(b) IN
    [builder |-> r.builder, fault |-> r.fault, builds |-> r.fault = "None"]

(* TelnetConnectionBuilder.product *)
ProductOutcome(b) ==
    IF b._product # 0
    THEN [builder |-> b, fault |-> "None", builds |-> FALSE]
    ELSE LET r == ProductArguments(b) IN
         [builder |-> r.builder, fault |-> r.fault, builds |-> r.fault = "None"]

(* builder.parameters = bundle *)
SetParameters(p) ==
    /\ builder' = [builder EXCEPT !._parameters = p]
    /\ last' = [op |-> "parameters", bundle |-> p]
    /\ UNCHANGED <<channelVars, sessionVars, transportVars, outputs, files,
                   threadVars, connections, adapters, commandVars, manglingVars, counterVars>>

(* builder.product *)
ReadProduct ==
    LET r == ProductOutcome(builder)
        new == Len(connections) + 1
    IN  /\ IF r.builds
           THEN /\ connections' = Append(connections, TelnetConnection(r.builder))
                /\ builder' = [r.builder EXCEPT !._product = new]
           ELSE /\ builder' = r.builder
                /\ UNCHANGED connections
        /\ last' = [op |-> "product", bundle |-> builder._parameters,
                    before |-> builder._product, fault |-> r.fault,
                    product |-> IF r.fault = "None" THEN builder'._product ELSE 0]
        /\ UNCHANGED <<channelVars, sessionVars, transportVars, outputs, files,
                       threadVars, adapters, commandVars, manglingVars, counterVars>>

(* NonLocalConnectionBuilder.product, the property of the base builder *)
ReadBaseProduct ==
    /\ last' = [op |-> "base_product", bundle |-> builder._parameters,
                fault |-> "NotImplementedError", product |-> 0]
    /\ UNCHANGED <<channelVars, sessionVars, transportVars, outputs, files,
                   threadVars, builderVars, commandVars, manglingVars, counterVars>>

(* connection.client of a connection the builder returned *)
ConnectionClient(c) ==
    /\ connections[c].class = "TelnetConnection"
    /\ IF connections[c]._client = 0
       THEN /\ adapters' = adapters + 1
            /\ connections' = [connections EXCEPT ![c]._client = adapters + 1]
       ELSE UNCHANGED <<connections, adapters>>
    /\ last' = [op |-> "connection_client", connection |-> c,
                client |-> connections'[c]._client]
    /\ UNCHANGED <<channelVars, sessionVars, transportVars, outputs, files,
                   threadVars, builder, commandVars, manglingVars, counterVars>>

(* classes derived from NonLocalConnection, by the capabilities they define *)
Variants == SUBSET Abstract

MaxInstances == 2

local == <<"l","o","c","a","l">>

(* an instance of a derived class, made by NonLocalConnection.__init__ *)
VariantInstance(supplied) ==
    [class |-> "Variant", supplied |-> supplied,
     hostname |-> local, username |-> root, password |-> None,
     _port |-> None, _path |-> None, _library_path |-> None,
     operating_system |-> None, _client |-> 0]

(* instantiation that does not look at the abstract capabilities *)
Instantiable_Unchecked(supplied) == supplied \subseteq Abstract

(* ABCMeta: a class is instantiable once nothing abstract is left in it *)
Instantiable(supplied) == Abstract \subseteq supplied

(* Variant(hostname='local', username='root') *)
Instantiate(supplied) ==
    /\ Len(connections) < MaxInstances
    /\ IF Instantiable(supplied)
       THEN /\ connections' = Append(connections, VariantInstance(supplied))
            /\ last' = [op |-> "instantiate", supplied |-> supplied,
                        fault |-> "None", instance |-> Len(connections) + 1]
       ELSE /\ UNCHANGED connections
            /\ last' = [op |-> "instantiate", supplied |-> supplied,
                        fault |-> "TypeError", instance |-> 0]
    /\ UNCHANGED <<channelVars, sessionVars, transportVars, outputs, files,
                   threadVars, builder, adapters, commandVars, manglingVars, counterVars>>

(* instance.cow(): __getattr__, _procedure_call, then the _main of the class *)
VariantCall(c) ==
    /\ connections[c].class = "Variant"
    /\ last' = [op |-> "variant_call", connection |-> c,
                supplied |-> connections[c].supplied,
                fault |-> "None"]
    /\ UNCHANGED <<channelVars, sessionVars, transportVars, outputs, files,
                   threadVars, builderVars, commandVars, manglingVars, counterVars>>

AssignParameters == \E p \in BundleReferences : SetParameters(p)

ProductClient == \E c \in DOMAIN connections : ConnectionClient(c)

InstantiateVariant == \E supplied \in Variants : Instantiate(supplied)

CallVariant == \E c \in DOMAIN connections : VariantCall(c)

InitBuilder ==
    /\ ChannelInit({EMPTY_STRING}, {None}, {None})
    /\ SessionInit({prompt}, {None})
    /\ ThreadInit({NoThreads})
    /\ BuilderInit
    /\ NoMangling
    /\ NoCounter
    /\ NoCommands

NextBuilder ==
    \/ AssignParameters
    \/ ReadProduct
    \/ ReadBaseProduct
    \/ ProductClient
    \/ InstantiateVariant
    \/ CallVariant

SpecBuilder == InitBuilder /\ [][NextBuilder]_vars

----------------------------------------------------------------------------
(* the connections the builder constructed *)
Built == {c \in DOMAIN connections : connections[c].class = "TelnetConnection"}

(* C21: the builder's product is memoized.  The builder constructs at most  *)
(* one TelnetConnection, and that connection at most one TelnetAdapter; a  *)
(* read of product that raises nothing returns the connection the builder  *)
(* holds, which is the one it held before the read if it held one, and     *)
(* which keeps the hostname and login of the first build whatever bundle   *)
(* has been assigned since.                                                *)
ProductIsMemoized ==
    /\ Cardinality(Built) <= 1
    /\ adapters <= 1
    /\ builder._product # 0 =>
          /\ Built = {builder._product}
          /\ connections[builder._product].hostname = builder._hostname
          /\ connections[builder._product].username = builder._username
    /\ builder._product = 0 => Built = {}
    /\ (last.op = "product" /\ last.fault = "None") =>
          /\ last.product # 0
          /\ last.product = builder._product
          /\ last.before # 0 => last.product = last.before
    /\ last.op = "connection_client" =>
          /\ last.client = 1
          /\ connections[last.connection]._client = 1

(* product read again after the bundle was replaced by one naming another  *)
(* host: the connection to the first host, with its one session, is back   *)
ProductReadAfterBundleReplaced ==
    /\ last.op = "product"
    /\ last.before # 0
    /\ last.bundle = 2
    /\ last.product = last.before
    /\ connections[last.product].hostname = host_a
    /\ connections[last.product]._client = 1
    /\ adapters = 1

(* the bundle lacks the hostname under both of its names *)
LacksHostname(p) ==
    /\ ParameterBundles[p].hostname = NoAttribute
    /\ ParameterBundles[p].address = NoAttribute

(* the bundle lacks the login under both of its names *)
LacksLogin(p) ==
    /\ ParameterBundles[p].username = NoAttribute
    /\ ParameterBundles[p].login = NoAttribute

(* C22: a read of product with no bundle set, or with a bundle that lacks   *)
(* the hostname or the login the builder has not got yet, raises a         *)
(* ConfigurationError, and no connection is returned or memoized.          *)
MissingItemIsConfigurationFault ==
    ( /\ last.op = "product"
      /\ last.before = 0
      /\ \/ /\ last.bundle = 0
            /\ None \in {builder._hostname, builder._username}
         \/ /\ last.bundle # 0
            /\ \/ LacksHostname(last.bundle) /\ builder._hostname = None
               \/ LacksLogin(last.bundle) /\ builder._username = None )
    => /\ last.fault = "ConfigurationError"
       /\ last.product = 0
       /\ builder._product = 0
       /\ Built = {}

(* C23: a class derived from NonLocalConnection that leaves client, port   *)
(* or _main abstract fails structurally the first time it is used, which   *)
(* is its instantiation: the attempt raises and yields no instance, so     *)
(* every connection that exists, and every connection a command is called  *)
(* on, supplies all three; the base builder's product raises               *)
(* NotImplementedError and returns nothing.                                *)
StructuralFaultAtFirstUse ==
    /\ \A c \in DOMAIN connections : Abstract \subseteq connections[c].supplied
    /\ (last.op = "instantiate" /\ ~(Abstract \subseteq last.supplied)) =>
          /\ last.fault = "TypeError"
          /\ last.instance = 0
    /\ last.op = "variant_call" => Abstract \subseteq last.supplied
    /\ last.op = "base_product" =>
          /\ last.fault = "NotImplementedError"
          /\ last.product = 0

(* a class that defines client and port but no _main was instantiated *)
VariantWithoutMainRefused ==
    /\ last.op = "instantiate"
    /\ last.supplied = {"client", "port"}
    /\ last.fault = "TypeError"
    /\ last.instance = 0

----------------------------------------------------------------------------
(* C24: the timeout of a command invocation is the readline timeout of the *)
(* output it returns: a readline without a timeout of its own, called on   *)
(* the output exec_command has just returned, waits for the timeout that   *)
(* exec_command was given.                                                 *)
InvocationTimeoutIsReadlineTimeout ==
    (last.op = "exec_command" /\ last.fault = "None") =>
        ReadlineWait(outputs[last.output].timeout, NoTimeout) = last.timeout

(* C25: the timeout passed to a blocking read is the wait it uses, for     *)
(* TelnetOutput.readline and for OutputFile.readline alike.                *)
ExplicitTimeoutIsTheWait ==
    /\ (last.op = "readline" /\ last.timeout # NoTimeout) =>
          last.wait = last.timeout
    /\ (last.op = "file_readline" /\ last.wait # <<>>) =>
          last.wait = <<last.timeout>>

----------------------------------------------------------------------------
(* Broadcom configuration commands (BroadcomBaseCommand).  A dictionary is *)
(* a function from its keys to its values, and an attribute that caches a  *)
(* dictionary is << >> while it is None and <<dictionary>> once computed.  *)

(* dict.update: the entries of `other` replace those of `data` *)
Update(data, other) == other @@ data

(* the dictionary without the keys of `other` *)
Without(data, other) == [k \in DOMAIN data \ DOMAIN other |-> data[k]]

(* commons.action_dict() *)
action_dict == "action" :> "Apply"

(* BroadcomBaseData.base_24_ghz_data and base_5_ghz_data *)
base_24_ghz_data == "wl_unit" :> "0"

base_5_ghz_data == "wl_unit" :> "1"

(* the bands a caller names *)
band_24 == <<"2",".","4">>

band_5 == <<"5">>

(* str(band) *)
Str(band) == IF band = None THEN <<"N","o","n","e">> ELSE band

(* text.startswith(character) *)
StartsWith(text, character) == text # <<>> /\ Head(text) = character

(* BroadcomBaseData.data(band=band) *)
BaseData(band) ==
    IF StartsWith(Str(band), "2") THEN Update(action_dict, base_24_ghz_data)
    ELSE IF StartsWith(Str(band), "5") THEN Update(action_dict, base_5_ghz_data)
    ELSE action_dict

(* the dictionaries of the test classes, one key each *)
test_data == "k1" :> "v1"

test_data_2 == "k2" :> "v2"

test_data_3 == "k3" :> "v3"

TestChildren == {"TestChild", "TestChild2", "TestChild3"}

Interfaces == {"EnableInterface", "DisableInterface"}

(* singular_data of each class; the interface commands have none (None)   *)
(* unless the band names 2.4 or 5 GHz, and are used with such a band only *)
SingularData(command) ==
    CASE command.class = "TestChild" -> test_data
      [] command.class = "TestChild2" -> test_data_2
      [] command.class = "TestChild3" -> test_data_3
      [] command.class = "EnableInterface" -> "wl_radio" :> "1"
      [] command.class = "DisableInterface" -> "wl_radio" :> "0"

(* BroadcomBaseCommand.__init__ *)
BroadcomBaseCommand(class, band) ==
    [class |-> class, _band |-> band, _base_data |-> << >>,
     _added_data |-> << >>, _non_base_data |-> << >>, _data |-> << >>]

(* the command after a read of base_data *)
WithBaseData(command) ==
    IF Len(command._base_data) = 0
    THEN [command EXCEPT !._base_data = <<BaseData(command._band)>>]
    ELSE command

(* the command after a read of non_base_data *)
WithNonBaseData(command) ==
    IF Len(command._non_base_data) = 0
    THEN [command EXCEPT !._non_base_data =
             <<Update(SingularData(command), command._added_data)>>]
    ELSE command

(* the command after a read of data *)
WithData(command) ==
    IF Len(command._data) = 0
    THEN LET c == WithNonBaseData(WithBaseData(command)) IN
         [c EXCEPT !._data = <<Update(c._base_data[1], c._non_base_data[1])>>]
    ELSE command

(* what a read of non_base_data and of data returns *)
NonBaseData(command) == WithNonBaseData(command)._non_base_data[1]

Data(command) == WithData(command)._data[1]

(* a band setter that leaves the cached data in place *)
SetBand_KeepsData(command, new_band) ==
    [command EXCEPT !._band = Str(new_band),
                    !._base_data = << >>, !._non_base_data = << >>]

(* BroadcomBaseCommand.band setter *)
SetBand(command, new_band) ==
    [command EXCEPT !._band = Str(new_band), !._data = << >>,
                    !._base_data = << >>, !._non_base_data = << >>]

(* BroadcomBaseCommand.__iadd__: the command after `command += other` *)
IAdd(command, other) ==
    [command EXCEPT !._added_data = Update(command._added_data, NonBaseData(other)),
                    !._data = << >>, !._non_base_data = << >>]

(* __add__: the new command of `command + other`.  TestChild overrides it  *)
(* to make a TestChild without a band; the base class makes a command of   *)
(* the class and band of `command`.  Either way the new command starts     *)
(* with no added data and gets the non-base data of `other`.               *)
Add(command, other) ==
    LET new_object == IF command.class \in TestChildren
                      THEN BroadcomBaseCommand("TestChild", None)
                      ELSE BroadcomBaseCommand(command.class, command._band)
    IN  [new_object EXCEPT !._added_data = Update(<< >>, NonBaseData(other))]

(* a subtraction that takes nothing away *)
Sub_KeepsAll(command, other) ==
    LET new_object == BroadcomBaseCommand(command.class, command._band)
    IN  [new_object EXCEPT !._added_data = command._added_data]

(* BroadcomBaseCommand.__sub__: the new command of `command - other` *)
Sub(command, other) ==
    LET new_object == BroadcomBaseCommand(command.class, command._band)
    IN  [new_object EXCEPT !._added_data =
            Without(command._added_data, NonBaseData(other))]

(* the bands a caller assigns *)
Bands == {band_24, band_5}

(* the commands a caller constructs: the test classes with or without a   *)
(* band, the interface commands with one                                  *)
FirstCommands ==
    {BroadcomBaseCommand("TestChild", None),
     BroadcomBaseCommand("TestChild", band_24),
     BroadcomBaseCommand("EnableInterface", band_5)}

SecondCommands ==
    {BroadcomBaseCommand("TestChild2", None),
     BroadcomBaseCommand("TestChild2", band_5),
     BroadcomBaseCommand("EnableInterface", band_24)}

ThirdCommands ==
    {BroadcomBaseCommand("TestChild3", None),
     BroadcomBaseCommand("DisableInterface", band_5)}

(* the operands of the operation before it ran *)
Operands(x, y) == [left |-> commands[x], right |-> commands[y]]

(* command.data *)
ReadData(x) ==
    /\ commands' = [commands EXCEPT ![x] = WithData(@)]
    /\ last' = [op |-> "data", left |-> x, right |-> x, result |-> x,
                before |-> Operands(x, x)]
    /\ UNCHANGED <<channelVars, sessionVars, transportVars, outputs, files,
                   threadVars, builderVars, manglingVars, counterVars>>

(* command.band = band *)
AssignBand(x, band) ==
    /\ commands' = [commands EXCEPT ![x] = SetBand(@, band)]
    /\ last' = [op |-> "band", left |-> x, right |-> x, result |-> x,
                before |-> Operands(x, x)]
    /\ UNCHANGED <<channelVars, sessionVars, transportVars, outputs, files,
                   threadVars, builderVars, manglingVars, counterVars>>

(* x += y; reading y.non_base_data fills the cache of y *)
InPlaceAdd(x, y) ==
    /\ x # y
    /\ commands' = [commands EXCEPT ![x] = IAdd(@, commands[y]),
                                    ![y] = WithNonBaseData(@)]
    /\ last' = [op |-> "iadd", left |-> x, right |-> y, result |-> x,
                before |-> Operands(x, y)]
    /\ UNCHANGED <<channelVars, sessionVars, transportVars, outputs, files,
                   threadVars, builderVars, manglingVars, counterVars>>

(* d = x + y *)
Plus(x, y) ==
    /\ x # y
    /\ commands' = ("d" :> Add(commands[x], commands[y]))
                      @@ [commands EXCEPT ![y] = WithNonBaseData(@)]
    /\ last' = [op |-> "add", left |-> x, right |-> y, result |-> "d",
                before |-> Operands(x, y)]
    /\ UNCHANGED <<channelVars, sessionVars, transportVars, outputs, files,
                   threadVars, builderVars, manglingVars, counterVars>>

(* r = x - y, where r is d or, for x -= y, x itself: the class defines no  *)
(* __isub__, so that -= binds the name to the new command of __sub__       *)
Minus(x, y, r) ==
    /\ x # y
    /\ r \in {"d", x}
    /\ commands' = (r :> Sub(commands[x], commands[y]))
                      @@ [commands EXCEPT ![y] = WithNonBaseData(@)]
    /\ last' = [op |-> "sub", left |-> x, right |-> y, result |-> r,
                before |-> Operands(x, y)]
    /\ UNCHANGED <<channelVars, sessionVars, transportVars, outputs, files,
                   threadVars, builderVars, manglingVars, counterVars>>

(* the names the caller binds commands to: a, b and c from the start, d   *)
(* to the result of a + or a -; a and d are the left operands              *)
Left == {"a", "d"}

Right == {"b", "c"}

CommandData == \E x \in DOMAIN commands \cap Left : ReadData(x)

CommandBand == \E x \in DOMAIN commands \cap Left, band \in Bands : AssignBand(x, band)

CommandIAdd == \E x \in DOMAIN commands \cap Left, y \in Right : InPlaceAdd(x, y)

CommandAdd == \E x \in DOMAIN commands \cap Left, y \in Right : Plus(x, y)

CommandSub == \E x \in DOMAIN commands \cap Left, y \in Right, r \in Left : Minus(x, y, r)

InitCommands ==
    /\ ChannelInit({EMPTY_STRING}, {None}, {None})
    /\ SessionInit({prompt}, {None})
    /\ ThreadInit({NoThreads})
    /\ BuilderInit
    /\ NoMangling
    /\ NoCounter
    /\ \E a \in FirstCommands, b \in SecondCommands, c \in ThirdCommands :
           commands = ("a" :> a) @@ ("b" :> b) @@ ("c" :> c)

NextCommands ==
    \/ CommandData
    \/ CommandBand
    \/ CommandIAdd
    \/ CommandAdd
    \/ CommandSub

SpecCommands == InitCommands /\ [][NextCommands]_vars

----------------------------------------------------------------------------
(* C26: for commands constructed without a band, as the test constructs    *)
(* them, a + b is a new command whose data is a's data updated with b's,   *)
(* and a += b gives a that same data; the operands of + and the right      *)
(* operand of += read the same data afterwards as before.  This is to      *)
(* hold whatever was added to a before.                                    *)
AdditionCombinesData ==
    ( /\ last.op \in {"add", "iadd"}
      /\ last.before.left._band = None
      /\ last.before.right._band = None )
    => /\ Data(commands[last.result])
             = Update(Data(last.before.left), Data(last.before.right))
       /\ Data(commands[last.right]) = Data(last.before.right)
       /\ (last.op = "add" /\ last.left # last.result) =>
              Data(commands[last.left]) = Data(last.before.left)

(* the keys the non-base data of a command sets *)
Keys(command) == DOMAIN NonBaseData(command)

(* the commands x, y and z set keys of their own: y and z share none, and  *)
(* nothing added to x so far has a key of y or of z                        *)
Separate(x, y, z) ==
    /\ Keys(y) \cap Keys(z) = {}
    /\ DOMAIN x._added_data \cap (Keys(y) \cup Keys(z)) = {}

(* subtraction undoes addition for the commands x, y and z *)
Undoes(x, y, z) ==
    LET both == IAdd(IAdd(x, y), z) IN
    /\ Data(Sub(both, y)) = Data(IAdd(x, z))
    /\ Data(Sub(Sub(both, y), z)) = Data(x)

(* C27 as stated: for all commands, after a += b and a += c, a - b has    *)
(* the data of a combined with c only and a - b - c the data a had.        *)
SubtractionUndoesAddition ==
    \A x \in DOMAIN commands \cap Left, y \in Right :
        \A z \in Right \ {y} :
            Undoes(commands[x], commands[y], commands[z])

(* C27: after a += b and a += c, a - b has the data of a combined with c   *)
(* only and a - b - c has the data a had, provided b and c set no key in   *)
(* common and none that data already added to a sets; a subtraction binds  *)
(* its result to a new command and leaves what its operands read as data   *)
(* unchanged, so that a -= b, a -= c leaves under the name a a command     *)
(* with the data a had.                                                    *)
SubtractionUndoesSeparateAdditions ==
    /\ \A x \in DOMAIN commands \cap Left, y \in Right :
          \A z \in Right \ {y} :
              Separate(commands[x], commands[y], commands[z])
                 => Undoes(commands[x], commands[y], commands[z])
    /\ last.op = "sub" =>
          /\ Data(commands[last.right]) = Data(last.before.right)
          /\ last.left # last.result =>
                Data(commands[last.left]) = Data(last.before.left)
          /\ Data(commands[last.result])
                = Update(Update(BaseData(last.before.left._band),
                                SingularData(last.before.left)),
                         Without(last.before.left._added_data,
                                 NonBaseData(last.before.right)))

(* a has had the test commands b and c added and b taken away again in     *)
(* place: it reads as its own data with that of c                          *)
SecondAdditionLeft ==
    /\ last.op = "sub"
    /\ last.left = "a"
    /\ last.result = "a"
    /\ last.right = "b"
    /\ commands["a"].class = "TestChild"
    /\ DOMAIN last.before.left._added_data = {"k2", "k3"}
    /\ Data(commands["a"]) = Update(Update(action_dict, test_data), test_data_3)

(* C30: the data of a command never lags its band.  What a read of data    *)
(* returns holds the interface selection of the current band, wl_unit "0"  *)
(* for a band that names 2.4 GHz and "1" for one that names 5 GHz, every   *)
(* added setting, and every own setting no added setting replaces.         *)
DataFollowsBand ==
    \A x \in DOMAIN commands :
        LET command == commands[x]
            data == Data(command)
        IN  /\ StartsWith(Str(command._band), "2") =>
                  /\ "wl_unit" \in DOMAIN data
                  /\ data["wl_unit"] = "0"
            /\ StartsWith(Str(command._band), "5") =>
                  /\ "wl_unit" \in DOMAIN data
                  /\ data["wl_unit"] = "1"
            /\ \A k \in DOMAIN command._added_data :
                  k \in DOMAIN data /\ data[k] = command._added_data[k]
            /\ \A k \in DOMAIN SingularData(command) \ DOMAIN command._added_data :
                  k \in DOMAIN data /\ data[k] = SingularData(command)[k]

(* a, whose data was read at 2.4 GHz and which carries added settings, has *)
(* been assigned the 5 GHz band                                            *)
BandChangedAfterRead ==
    /\ last.op = "band"
    /\ last.left = "a"
    /\ Len(last.before.left._data) = 1
    /\ last.before.left._band = band_24
    /\ commands["a"]._band = band_5
    /\ DOMAIN commands["a"]._added_data # {}
    /\ Data(commands["a"])["wl_unit"] = "1"

----------------------------------------------------------------------------
(* C28: the cached prefix is never stale.  Whenever the cache holds a      *)
(* value, it is the concatenation of what the path, library_path and       *)
(* command_prefix properties return at that moment, and it is what a read  *)
(* of prefix returns; an assignment to path or library_path, and one that  *)
(* changes command_prefix, leaves the cache empty.                         *)
CachedPrefixIsNeverStale ==
    /\ _prefix # None =>
          /\ _prefix = Defaulted(_path) \o Defaulted(_library_path)
                          \o Defaulted(_command_prefix)
          /\ PrefixValue = _prefix
    /\ last.op \in {"path", "library_path"} => _prefix = None
    /\ (last.op = "command_prefix" /\ Len(last.value) # 0) => _prefix = None
    /\ last.op = "prefix" => last.result = _prefix

(* the prefix was read (the unset library path has become ''), and then    *)
(* the path was assigned: the cache is empty again                         *)
PathAssignedAfterPrefixRead ==
    /\ last.op = "path"
    /\ last.value = ape
    /\ _library_path = EMPTY_STRING
    /\ _path = PathFormat(ape)
    /\ _prefix = None

----------------------------------------------------------------------------
(* One caller that drains the outputs of its commands: with readlines,     *)
(* with read, or by iteration, one readline at a step.  The text of a      *)
(* command's answer, prompt included, is in the transport from the write   *)
(* on; what of it has arrived when an expect returns is chosen by the      *)
(* expect, so that a wait can elapse at any step.                          *)
DrainModes == {"readlines", "read", "iterate"}

MaxYields == 4

(* a caller that is not draining *)
Caller ==
    [pc |-> "idle", mode |-> "idle", output |-> 0, lines |-> << >>,
     began_finished |-> FALSE]

(* an iteration that never finds the output finished *)
Exhausted_Never(finished) == FALSE

(* TelnetOutput.next: `while not self.finished` *)
Exhausted(finished) == finished

(* output.readlines(), output.read() or iter(output) is called *)
StartDrain(mode, i) ==
    /\ thread[1].pc \in {"idle", "done"}
    /\ thread' = [thread EXCEPT ![1] =
                     [pc |-> mode, mode |-> mode, output |-> i, lines |-> << >>,
                      began_finished |-> outputs[i].finished]]
    /\ UNCHANGED <<channelVars, sessionVars, transportVars, outputs, files,
                   _lock, locks, last, builderVars, commandVars, manglingVars, counterVars>>

(* readlines and read: `line = self.readline(); lines.append(line)`, until *)
(* the line is EOF                                                         *)
ReadlinesStep ==
    LET i == thread[1].output
    IN  /\ thread[1].pc \in {"readlines", "read"}
        /\ Len(thread[1].lines) < MaxYields
        /\ \E r \in ReadlineOutcomes(outputs[i].endings, outputs[i].finished, stream) :
               /\ outputs' = [outputs EXCEPT ![i].finished = r.finished]
               /\ stream' = r.stream
               /\ thread' = [thread EXCEPT
                     ![1].lines = Append(@, r.line),
                     ![1].pc = IF r.line = EOF THEN "done" ELSE @]
        /\ UNCHANGED <<channelVars, sessionVars, files, _lock, locks, last,
                       builderVars, commandVars, manglingVars, counterVars>>

(* the generator of next: `while not self.finished: yield self.readline()` *)
IterateStep ==
    LET i == thread[1].output
    IN  /\ thread[1].pc = "iterate"
        /\ Len(thread[1].lines) < MaxYields
        /\ IF Exhausted(outputs[i].finished)
           THEN /\ thread' = [thread EXCEPT ![1].pc = "done"]
                /\ UNCHANGED <<transportVars, outputs>>
           ELSE \E r \in ReadlineOutcomes(outputs[i].endings, outputs[i].finished,
                                          stream) :
                    /\ outputs' = [outputs EXCEPT ![i].finished = r.finished]
                    /\ stream' = r.stream
                    /\ thread' = [thread EXCEPT ![1].lines = Append(@, r.line)]
        /\ UNCHANGED <<channelVars, sessionVars, files, _lock, locks, last,
                       builderVars, commandVars, manglingVars, counterVars>>

CallerStarts == \E mode \in DrainModes, i \in DOMAIN outputs : StartDrain(mode, i)

DrainStep ==
    \/ ReadlinesStep
    \/ IterateStep

InitDrain ==
    /\ ChannelInit({EMPTY_STRING}, {None}, {None})
    /\ SessionInit({prompt}, {None})
    /\ ThreadInit({<<Caller>>})
    /\ BuilderInit
    /\ NoMangling
    /\ NoCounter
    /\ NoCommands

NextDrain ==
    \/ DrainedExec
    \/ CallerStarts
    \/ ReadlinesStep
    \/ IterateStep

(* the caller's thread keeps running: a drain that can take its next       *)
(* readline does take it, every wait being bounded by the timeout          *)
SpecDrain == InitDrain /\ [][NextDrain]_vars /\ WF_vars(DrainStep)

(* C29: the lines of one invocation are finite and forward-only.  A drain  *)
(* that has begun, by readlines, read or iteration, comes to its end; it   *)
(* yields at most the lines of the answers and one EOF; and an iteration   *)
(* begun on a finished output yields nothing and takes nothing from the    *)
(* transport.                                                              *)
DrainTerminates ==
    /\ [](thread[1].mode = "iterate" /\ thread[1].began_finished
            => thread[1].lines = << >>)
    /\ [](Len(thread[1].lines) <= MaxLines * Len(outputs) + 1)
    /\ [][ (thread[1].pc = "iterate" /\ outputs[thread[1].output].finished)
              => stream' = stream ]_vars
    /\ (thread[1].pc \in DrainModes) ~> (thread[1].pc = "done")

(* an iteration over an output that an earlier drain finished has ended    *)
(* and has yielded no line                                                 *)
SecondIterationYieldsNothing ==
    /\ thread[1].pc = "done"
    /\ thread[1].mode = "iterate"
    /\ thread[1].began_finished
    /\ thread[1].lines = << >>
    /\ outputs[thread[1].output].finished

----------------------------------------------------------------------------
(* Properties of the lazily made lock (checked under SpecThreads) *)

(* C31: every read of connection.lock returns the one lock of the Channel, *)
(* in any interleaving: the threads that have read it hold the same lock   *)
(* object, and two threads that took the lock they read are never inside   *)
(* their cycles together.                                                  *)
LockReadsReturnOneLock ==
    \A t \in Threads : \A u \in Threads :
        (thread[t].lock # 0 /\ thread[u].lock # 0)
            => /\ thread[t].lock = thread[u].lock
               /\ (t # u => ~(thread[t].pc \in CyclePcs /\ thread[u].pc \in CyclePcs))

----------------------------------------------------------------------------
(* Teardown of the Session.  TelnetAdapter.__del__ is `self.client.close()`:*)
(* it reads the client property, which connects when there is no handle,   *)
(* and closes what the property returned.  An exception that leaves        *)
(* __del__ is written to stderr by the interpreter and goes no further.    *)

(* what can fail in a teardown: nothing, the connect, or the close *)
TeardownFaults == {"None", "connect", "close"}

(* TelnetAdapter.__del__ *)
Del(failure) ==
    /\ adapter_client # "Closed"
    /\ failure = "connect" => adapter_client = "None"
    /\ IF failure = "connect"
       THEN (* telnetlib.Telnet(...) raises: no handle is assigned *)
            /\ last' = [op |-> "del", was |-> adapter_client, opened |-> 0,
                        handshakes |-> << >>, written |-> << >>,
                        ignored |-> "socket.error", fault |-> "None"]
            /\ adapter_client' = "Closed"
            /\ UNCHANGED <<telnet_timeout, opened, handshakes, stream>>
       ELSE \E c \in AdapterClientOutcomes(adapter_client, password, stream) :
               /\ adapter_client' = "Closed"
               /\ telnet_timeout' = IF adapter_client = "None" THEN ConnectionTimeout
                                    ELSE telnet_timeout
               /\ opened' = opened + c.opened
               /\ handshakes' = handshakes \o c.handshakes
               /\ stream' = c.stream
               /\ last' = [op |-> "del", was |-> adapter_client, opened |-> c.opened,
                           handshakes |-> c.handshakes, written |-> c.written,
                           ignored |-> IF failure = "close" THEN "socket.error"
                                       ELSE "None",
                           fault |-> "None"]
    /\ UNCHANGED <<channelVars, _client, password, outputs, files, threadVars,
                   builderVars, commandVars, manglingVars, counterVars>>

(* the Session has not been discarded *)
Alive == adapter_client # "Closed"

LiveConnect == Alive /\ SessionConnect

LiveExec == Alive /\ ShortExec

LiveWriteline == Alive /\ ShortWriteline

LiveReadline == Alive /\ OutputReadline

SessionDel == \E failure \in TeardownFaults : Del(failure)

NextTeardown ==
    \/ LiveConnect
    \/ LiveExec
    \/ LiveWriteline
    \/ LiveReadline
    \/ SessionDel

SpecTeardown == InitSession /\ [][NextTeardown]_vars

(* C32: the teardown of a Session that never connected opens no transport  *)
(* and runs no handshake; a teardown closes only a transport that was open *)
(* already, and no failure of it reaches the caller.                       *)
TeardownOnlyCloses ==
    last.op = "del" =>
        /\ last.fault = "None"
        /\ last.opened = 0
        /\ last.handshakes = << >>
        /\ last.written = << >>

----------------------------------------------------------------------------
(* Properties of the login handshake (checked under SpecSession) *)

(* C33: in the login handshake the password is written only after the      *)
(* password prompt was seen on the stream: a handshake whose read_until    *)
(* ended without the password prompt has not written the password.         *)
PasswordOnlyAfterPasswordPrompt ==
    \A j \in DOMAIN handshakes :
        (\E k \in DOMAIN handshakes[j].written :
             handshakes[j].written[k] = password \o NEWLINE)
            => handshakes[j].found

----------------------------------------------------------------------------
(* TelnetConnection.client with prompt mangling.  The client property makes *)
(* the TelnetAdapter when there is none and, with mangle_prompt set, runs   *)
(* ChangePrompt(adapter).run() right after.  ChangePrompt belongs to        *)
(* apcommand.commands.changeprompt; of its run() only this much is assumed: *)
(* it runs one command on the adapter given, or raises.  `events` keeps, in *)
(* order, the making of a                                                   *)
(* Session ("session"), a run of the prompt change ("change") and the       *)
(* writing of a forwarded command ("command").                              *)

MaxCalls == 2

(* exec_command(command, timeout=10) *)
ExecDefaultTimeout == 10

(* the text ChangePrompt writes, whatever it is *)
change_prompt == <<"P","S","1">>

(* ChangePrompt(adapter).run(): one exec_command on the adapter, answered   *)
(* by the prompt, or an exception out of it before a handle is assigned     *)
ChangePromptOutcomes(ac, pw, s) ==
    {[adapter_client |-> "Telnet", stream |-> o.stream, written |-> o.written,
      opened |-> o.opened, handshakes |-> o.handshakes,
      timeout |-> ExecDefaultTimeout, fault |-> "None"] :
        o \in ExecCommandOutcomes(ac, pw, s, change_prompt, prompt)}
    \cup
    {[adapter_client |-> ac, stream |-> s, written |-> << >>, opened |-> 0,
      handshakes |-> << >>, timeout |-> NoTimeout, fault |-> "socket.error"]}

(* what a read of the client property leaves untouched *)
Untouched(ac, s, made) ==
    [adapter_client |-> ac, stream |-> s, written |-> << >>, opened |-> 0,
     handshakes |-> << >>, timeout |-> NoTimeout, fault |-> "None", events |-> made]

(* a client property that changes the prompt at every read *)
ChannelClientOutcomes_ChangesAgain(c, mangle, ac, pw, s) ==
    LET made == IF c = "None" THEN <<"session">> ELSE << >>
    IN  IF ~mangle
        THEN {Untouched(ac, s, made)}
        ELSE {[adapter_client |-> r.adapter_client, stream |-> r.stream,
               written |-> r.written, opened |-> r.opened,
               handshakes |-> r.handshakes, timeout |-> r.timeout,
               fault |-> r.fault, events |-> made \o <<"change">>] :
                 r \in ChangePromptOutcomes(ac, pw, s)}

(* TelnetConnection.client *)
ChannelClientOutcomes(c, mangle, ac, pw, s) ==
    IF c # "None"
    THEN {Untouched(ac, s, << >>)}
    ELSE IF ~mangle
    THEN {Untouched(ac, s, <<"session">>)}
    ELSE {[adapter_client |-> r.adapter_client, stream |-> r.stream,
           written |-> r.written, opened |-> r.opened,
           handshakes |-> r.handshakes, timeout |-> r.timeout,
           fault |-> r.fault, events |-> <<"session", "change">>] :
             r \in ChangePromptOutcomes(ac, pw, s)}

(* connection.client read by the caller *)
ChannelClient ==
    /\ \E k \in ChannelClientOutcomes(_client, mangle_prompt, adapter_client,
                                      password, stream) :
           /\ _client' = "TelnetAdapter"
           /\ adapter_client' = k.adapter_client
           /\ telnet_timeout' = IF k.timeout = NoTimeout THEN telnet_timeout
                                ELSE k.timeout
           /\ opened' = opened + k.opened
           /\ handshakes' = handshakes \o k.handshakes
           /\ stream' = k.stream
           /\ events' = events \o k.events
           /\ last' = [op |-> "channel_client", before |-> events,
                       written |-> k.written, fault |-> k.fault]
    /\ UNCHANGED <<channelVars, password, outputs, files, threadVars, builderVars,
                   commandVars, mangle_prompt, counterVars>>

(* connection.NAME(arguments, timeout) on a TelnetConnection: the prefix is *)
(* read, then _main reads self.client and calls its exec_command           *)
ChannelCall(name, arguments, timeout, response) ==
    LET text == PrefixValue \o name \o SPACE \o arguments
    IN  /\ Len(outputs) < MaxCalls
        /\ PrefixRead
        /\ \E k \in ChannelClientOutcomes(_client, mangle_prompt, adapter_client,
                                          password, stream) :
             IF k.fault # "None"
             THEN /\ _client' = "TelnetAdapter"
                  /\ adapter_client' = k.adapter_client
                  /\ stream' = k.stream
                  /\ events' = events \o k.events
                  /\ last' = [op |-> "channel_call", before |-> events,
                              written |-> k.written, fault |-> k.fault]
                  /\ UNCHANGED <<telnet_timeout, opened, handshakes, outputs, files>>
             ELSE \E o \in ExecCommandOutcomes(k.adapter_client, password, k.stream,
                                               text, response) :
                  /\ _client' = "TelnetAdapter"
                  /\ adapter_client' = "Telnet"
                  /\ telnet_timeout' = timeout
                  /\ opened' = opened + k.opened + o.opened
                  /\ handshakes' = handshakes \o k.handshakes \o o.handshakes
                  /\ stream' = o.stream
                  /\ outputs' = Append(outputs, TelnetOutput(prompt, end_of_line,
                                                             ConnectionTimeout))
                  /\ files' = Append(files, OutputFile(Len(outputs) + 1))
                  /\ events' = events \o k.events \o <<"command">>
                  /\ last' = [op |-> "channel_call", before |-> events,
                              written |-> k.written \o o.written, fault |-> "None"]
        /\ UNCHANGED <<password, threadVars, builderVars, commandVars, mangle_prompt, counterVars>>

ReadChannelClient == ChannelClient

CallChannel ==
    \E arguments \in {EMPTY_STRING}, timeout \in {NoTimeout, 1},
       response \in {ResponseOf(<< >>), ResponseOf(<< <<"a">> \o end_of_line >>)} :
        ChannelCall(ls, arguments, timeout, response)

(* TelnetConnection(mangle_prompt=True), the default, or mangle_prompt=False *)
InitMangling ==
    /\ ChannelInit({EMPTY_STRING}, {None}, {None})
    /\ SessionInit({prompt, login_prompt}, {None, <<"p","w">>})
    /\ ThreadInit({<< >>})
    /\ builder = NewBuilder /\ connections = << >> /\ adapters = 0
    /\ NoCommands
    /\ mangle_prompt \in BOOLEAN
    /\ events = << >>
    /\ NoCounter

NextMangling ==
    \/ ReadChannelClient
    \/ CallChannel
    \/ OutputReadline

SpecMangling == InitMangling /\ [][NextMangling]_vars

(* the events of a Channel: its Session, the prompt change if mangle_prompt *)
(* is set, then n forwarded commands                                       *)
RECURSIVE Commands(_)
Commands(n) == IF n = 0 THEN << >> ELSE Commands(n - 1) \o <<"command">>

Lifecycle(mangle, n) ==
    <<"session">> \o (IF mangle THEN <<"change">> ELSE << >>) \o Commands(n)

(* C34: a Channel creates its Session at most once; with prompt mangling   *)
(* the prompt change runs exactly once, after the Session is made and      *)
(* before the first forwarded command is written; later commands reuse the *)
(* Session and do not run it again.  Without mangling it never runs.       *)
SessionAndPromptChangeOnce ==
    /\ \E n \in 0..MaxCalls :
          \/ events = << >>
          \/ events = Lifecycle(mangle_prompt, n)
    /\ (_client = "None") <=> (events = << >>)
    /\ last.op \in {"channel_call", "channel_client"} =>
          \A j \in DOMAIN last.written :
              last.written[j] = change_prompt \o NEWLINE
                  => (last.before = << >> /\ mangle_prompt)

(* a second command forwarded by a Channel that changed its prompt before  *)
(* the first: the Session is reused and the prompt is not changed again    *)
SecondCommandAfterOneChange ==
    /\ mangle_prompt
    /\ events = <<"session", "change", "command", "command">>
    /\ last.op = "channel_call"
    /\ last.written = << <<"l","s"," ","\n">> >>
    /\ opened = 1

----------------------------------------------------------------------------
(* SharedCounter, shared by two threads.  `self.count += self.step` is a    *)
(* read of the attribute, an addition and a write of the attribute, and a   *)
(* thread can be switched out between any two of them; `return self.count`  *)
(* reads the attribute again.  The counter keeps, beside its fields, the    *)
(* value it was made with and the calls that have returned.                 *)

MaxCounterCalls == 2

Counts == {0, 5}

Steps == {1, 2}

CounterOps == {"increment", "decrement"}

(* a thread that is not inside a call of the counter *)
CounterThread == [pc |-> "idle", op |-> "None", loaded |-> 0, calls |-> 0]

(* counter.increment() or counter.decrement() is entered *)
CounterCall(t, op) ==
    /\ thread[t].pc = "idle"
    /\ thread[t].calls < MaxCounterCalls
    /\ thread' = [thread EXCEPT ![t].pc = "load", ![t].op = op]
    /\ UNCHANGED <<channelVars, sessionVars, transportVars, outputs, files, _lock,
                   locks, builderVars, commandVars, manglingVars, counterVars, last>>

(* the read of self.count in `self.count += self.step` *)
CounterLoad(t) ==
    /\ thread[t].pc = "load"
    /\ thread' = [thread EXCEPT ![t].pc = "store", ![t].loaded = counter.count]
    /\ UNCHANGED <<channelVars, sessionVars, transportVars, outputs, files, _lock,
                   locks, builderVars, commandVars, manglingVars, counterVars, last>>

(* the value increment or decrement writes back *)
Stepped(op, loaded, step) ==
    IF op = "increment" THEN loaded + step ELSE loaded - step

(* the addition and the write of self.count *)
CounterStore(t) ==
    /\ thread[t].pc = "store"
    /\ counter' = [counter EXCEPT
                     !.count = Stepped(thread[t].op, thread[t].loaded, counter.step)]
    /\ thread' = [thread EXCEPT ![t].pc = "return"]
    /\ UNCHANGED <<channelVars, sessionVars, transportVars, outputs, files, _lock,
                   locks, builderVars, commandVars, manglingVars, last>>

(* `return self.count` *)
CounterReturn(t) ==
    /\ thread[t].pc = "return"
    /\ counter' = [counter EXCEPT
                     !.increments = IF thread[t].op = "increment" THEN @ + 1 ELSE @,
                     !.decrements = IF thread[t].op = "decrement" THEN @ + 1 ELSE @]
    /\ thread' = [thread EXCEPT ![t].pc = "idle", ![t].calls = @ + 1]
    /\ last' = [op |-> thread[t].op, thread |-> t, returned |-> counter.count,
                count |-> counter.count]
    /\ UNCHANGED <<channelVars, sessionVars, transportVars, outputs, files, _lock,
                   locks, builderVars, commandVars, manglingVars>>

CounterEnter == \E t \in Threads, op \in CounterOps : CounterCall(t, op)

CounterLoads == \E t \in Threads : CounterLoad(t)

CounterStores == \E t \in Threads : CounterStore(t)

CounterReturns == \E t \in Threads : CounterReturn(t)

InitCounter ==
    /\ ChannelInit({EMPTY_STRING}, {None}, {None})
    /\ SessionInit({prompt}, {None})
    /\ ThreadInit({<<CounterThread, CounterThread>>})
    /\ builder = NewBuilder /\ connections = << >> /\ adapters = 0
    /\ NoCommands
    /\ mangle_prompt = FALSE /\ events = << >>
    /\ \E count \in Counts, step \in Steps : counter = SharedCounter(count, step)

NextCounter ==
    \/ CounterEnter
    \/ CounterLoads
    \/ CounterStores
    \/ CounterReturns

SpecCounter == InitCounter /\ [][NextCounter]_vars

(* C35: for a SharedCounter made with count c and step s, once n increment *)
(* and m decrement calls have returned and none is under way, the count is *)
(* c + (n - m) * s, whichever threads made the calls; and each call        *)
(* returns the count as it is when the call ends.                          *)
NoUpdateIsLost ==
    /\ (\A t \in Threads : thread[t].pc = "idle") =>
          counter.count = counter.initial
                            + (counter.increments - counter.decrements) * counter.step
    /\ last.op \in CounterOps => last.returned = last.count

====
